---- MODULE Spec2Model ----
(***************************************************************************)
(* A model of the envelop overlay: the byte-exact envelope and frame       *)
(* codecs, the inner-payload crypto, the envelope strategies, the address  *)
(* registry, the peer manager's send path, the node's inbound dispatch,    *)
(* the router's state machine and the application socket.                  *)
(***************************************************************************)
EXTENDS Integers, Sequences, FiniteSets, TLC

VARIABLES
    addrBook,   \* RelayRegistry.addrBook : PeerID -> sequence of addresses
    revBook,    \* RelayRegistry.revBook  : address -> PeerID (or NoPeer)
    wire,       \* unidirectional streams written and closed, not yet read
    incoming,   \* Socket.incoming of every host
    closed,     \* Socket.closed of every host
    stratKey,   \* SimpleStrategy.Key shared by the hosts
    job,        \* what the application asked for (NoJob before it did)
    delivered,  \* envelopes every router handed to OnPayload, per host
    lost,       \* TRUE once a SendToPeer call failed on every address
    last,       \* the most recent call and what it did
    conns,      \* PeerManager.conns : address -> pooled connection
    dials,      \* quic.Dial calls of the peer manager so far
    snap,       \* the address list a caller got from Resolver and still holds
    chanCloses, \* close(s.incoming) executions, per host
    payloadCalls, \* OnPayload calls a router has made so far
    mu,         \* PeerManager.mu : the goroutine holding it, 0 when free
    procs,      \* the goroutines inside PeerManager.getConn, or around Socket.Close
    given,      \* the value handed to a codec
    encoded,    \* what the encoding half of the codec produced from it
    decoded,    \* what the decoding half produced from that
    routes,     \* a RouteTable
    node,       \* the node processes: which are running, streams accepted so far
    mesh        \* routers joined by their NextHop tables, and the Send calls so far

vars == <<addrBook, revBook, wire, incoming, closed, stratKey, job, delivered, lost, last,
          conns, dials, snap, chanCloses, payloadCalls, mu, procs, given, encoded, decoded, routes, node, mesh>>

\* what the network steps leave alone
others == <<conns, dials, snap, chanCloses, payloadCalls, mu, procs, given, encoded, decoded, routes,
            node, mesh>>

-----------------------------------------------------------------------------
(* Bounds of the model *)

\* TTL values 0..MaxTTL are enumerated (together with 5 and 255)
MaxTTL == 2
\* onion paths of 0..MaxPath relays are enumerated
MaxPath == 2
\* envelopes nested up to MaxDepth + 1 layers below the outermost are enumerated
MaxDepth == 1
\* a router makes at most MaxDeliveries OnPayload calls on the loaded socket
MaxDeliveries == 130
\* registrations stop once a peer's forward list holds MaxAddrs addresses
MaxAddrs == 3
\* a peer manager calls quic.Dial at most MaxDials times
MaxDials == 3

-----------------------------------------------------------------------------
(* Bytes and peer identities *)

Rep(b, n) == [i \in 1..n |-> b]

PeerIDLength == 32

\* three hosts (Alice, Relay, Bob) and an identity nobody listens for
IdA == Rep(161, PeerIDLength)
IdR == Rep(162, PeerIDLength)
IdB == Rep(163, PeerIDLength)
IdZ == Rep(164, PeerIDLength)
ZeroID == Rep(0, PeerIDLength)

Hosts == {IdA, IdR, IdB}
PeerIDs == Hosts \cup {IdZ}

\* PeerID.Equals
Equals(p, other) == p = other

-----------------------------------------------------------------------------
(* Envelope codec *)

EnvHeaderSize == 72
FlagEncrypted == 1
FlagRPC == 4
FlagRegister == 128

Envelope(v, f, ttl, dest, ret, ilen, inner) ==
    [Version |-> v, Flags |-> f, TTL |-> ttl, DestPeerID |-> dest,
     ReturnPeerID |-> ret, InnerLen |-> ilen, Reserved |-> <<0, 0, 0>>,
     InnerPayload |-> inner]

\* uint16(n)
U16(n) == n % 65536

\* Marshal with the length field written low byte first
Marshal_LittleEndian(e) ==
    <<e.Version, e.Flags, e.TTL>> \o e.DestPeerID \o e.ReturnPeerID
      \o <<e.InnerLen % 256, e.InnerLen \div 256>> \o e.Reserved
      \o e.InnerPayload

\* Marshal: 72 header bytes, then the inner payload
Marshal(e) ==
    <<e.Version, e.Flags, e.TTL>> \o e.DestPeerID \o e.ReturnPeerID
      \o <<e.InnerLen \div 256, e.InnerLen % 256>> \o e.Reserved
      \o e.InnerPayload

\* Unmarshal: [ok |-> FALSE] on "envelope too short" / "inner payload truncated"
Unmarshal(data) ==
    IF Len(data) < EnvHeaderSize THEN [ok |-> FALSE, err |-> "envelope too short"]
    ELSE LET ilen == data[68] * 256 + data[69] IN
         IF Len(data) < EnvHeaderSize + ilen
         THEN [ok |-> FALSE, err |-> "inner payload truncated"]
         ELSE [ok |-> TRUE,
               env |-> [Version |-> data[1], Flags |-> data[2], TTL |-> data[3],
                        DestPeerID |-> SubSeq(data, 4, 35),
                        ReturnPeerID |-> SubSeq(data, 36, 67),
                        InnerLen |-> ilen,
                        Reserved |-> SubSeq(data, 70, 72),
                        InnerPayload |-> SubSeq(data, 73, 72 + ilen)]]

\* Builder: Version/Flags/TTL/Dest/Return/Payload/Build
BuilderBuild(v, f, ttl, dest, ret, p) ==
    Envelope(v, f, ttl, dest, ret, U16(Len(p)), p)

-----------------------------------------------------------------------------
(* Frame codec *)

FrameHeaderSize == 3
FrameTypeNormal == 1

\* Frame.Build: Raw = Type, big-endian uint16 length, payload
FrameBuild(t, payload) ==
    <<t, U16(Len(payload)) \div 256, U16(Len(payload)) % 256>> \o payload

\* frame.Decode; FrameHeaderSize+length is computed in uint16
FrameDecode(data) ==
    IF Len(data) < FrameHeaderSize THEN [ok |-> FALSE, err |-> "frame too short"]
    ELSE LET length == data[2] * 256 + data[3]
             end == U16(FrameHeaderSize + length) IN
         IF Len(data) < end THEN [ok |-> FALSE, err |-> "frame length mismatch"]
         ELSE IF end < FrameHeaderSize THEN [ok |-> FALSE, err |-> "panic"]
         ELSE [ok |-> TRUE, t |-> data[1], payload |-> SubSeq(data, 4, end)]

-----------------------------------------------------------------------------
(* Router *)

\* A Router value: SelfID and the four injected callbacks.  OnRegister, Send
\* and OnPayload are TRUE when bound.  NextHop is "nil" (unbound), "direct"
\* (every destination is its own next hop) or "table" (the static layer of
\* RouteTable.Lookup over the map direct).
Router(self, onRegister, nextHop, direct, send, onPayload) ==
    [SelfID |-> self, OnRegister |-> onRegister, NextHop |-> nextHop,
     direct |-> direct, Send |-> send, OnPayload |-> onPayload]

\* r.NextHop(dest): (nextHop, ok)
NextHop(r, dest) ==
    IF r.NextHop = "direct" THEN [ok |-> TRUE, hop |-> dest]
    ELSE IF dest \in DOMAIN r.direct THEN [ok |-> TRUE, hop |-> r.direct[dest]]
    ELSE [ok |-> FALSE, hop |-> ZeroID]

\* what one HandleEnvelope call did: the OnRegister, Send and OnPayload calls
\* in order, and one entry per envelope layer it handled (the envelope as
\* received, as it is left, and what was done with it)
Outcome(regs, sends, payloads, before, after, act) ==
    [regs |-> regs, sends |-> sends, payloads |-> payloads,
     layers |-> <<[before |-> before, after |-> after, act |-> act]>>]

\* if env.Flags == 1
IsRegisterEnvelope(env) == env.Flags = 1

TTLExpired_Never(env) == FALSE

\* if env.TTL == 0
TTLExpired(env) == env.TTL = 0

IsForMe_ByReturn(r, env) == Equals(env.ReturnPeerID, r.SelfID)

\* env.DestPeerID.Equals(r.SelfID)
IsForMe(r, env) == Equals(env.DestPeerID, r.SelfID)

DecTTL_Keep(ttl) == ttl

\* env.TTL-- on a uint8
DecTTL(ttl) == (ttl + 255) % 256

\* step 2 with env.TTL-- moved before the lookup
Forward_DecFirst(r, env) ==
    LET out == [env EXCEPT !.TTL = DecTTL(env.TTL)] IN
    IF r.NextHop = "nil" \/ ~r.Send
    THEN Outcome(<<>>, <<>>, <<>>, env, out, "unbound")
    ELSE LET nextHop == NextHop(r, env.DestPeerID) IN
         IF ~nextHop.ok
         THEN Outcome(<<>>, <<>>, <<>>, env, out, "no next hop")
         ELSE Outcome(<<>>, <<[nextHop |-> nextHop.hop, env |-> out]>>, <<>>,
                      env, out, "forward")

\* step 2 with the relay writing itself into return_peer_id before Send
Forward_Restamped(r, env) ==
    IF r.NextHop = "nil" \/ ~r.Send
    THEN Outcome(<<>>, <<>>, <<>>, env, env, "unbound")
    ELSE LET nextHop == NextHop(r, env.DestPeerID) IN
         IF ~nextHop.ok
         THEN Outcome(<<>>, <<>>, <<>>, env, env, "no next hop")
         ELSE LET out == [env EXCEPT !.TTL = DecTTL(env.TTL), !.ReturnPeerID = r.SelfID] IN
              Outcome(<<>>, <<[nextHop |-> nextHop.hop, env |-> out]>>, <<>>,
                      env, out, "forward")

\* step 2: not for me, look up the next hop, decrement the TTL and Send
Forward(r, env) ==
    IF r.NextHop = "nil" \/ ~r.Send
    THEN Outcome(<<>>, <<>>, <<>>, env, env, "unbound")
    ELSE LET nextHop == NextHop(r, env.DestPeerID) IN
         IF ~nextHop.ok
         THEN Outcome(<<>>, <<>>, <<>>, env, env, "no next hop")
         ELSE LET out == [env EXCEPT !.TTL = DecTTL(env.TTL)] IN
              Outcome(<<>>, <<[nextHop |-> nextHop.hop, env |-> out]>>, <<>>,
                      env, out, "forward")

\* step 3.2: business data, OnPayload(env) when bound
Deliver(r, env) ==
    Outcome(<<>>, <<>>, IF r.OnPayload THEN <<env>> ELSE <<>>, env, env, "payload")

Unwrapped_FallThrough(r, env, inner) ==
    [inner EXCEPT !.layers = <<[before |-> env, after |-> env, act |-> "unwrap"]>> \o @,
                  !.payloads = @ \o Deliver(r, env).payloads]

\* step 3.1 entered once more with the outer envelope before the inner one
Unwrapped_Twice(r, env, inner) ==
    [inner EXCEPT !.layers = <<[before |-> env, after |-> env, act |-> "unwrap"],
                               [before |-> env, after |-> env, act |-> "unwrap"]>> \o @]

\* step 3.1: r.HandleEnvelope(innerEnv); return
Unwrapped(r, env, inner) ==
    [inner EXCEPT !.layers = <<[before |-> env, after |-> env, act |-> "unwrap"]>> \o @]

RECURSIVE HandleEnvelope(_, _)
\* Router.HandleEnvelope, recursion included
HandleEnvelope(r, env) ==
    IF IsRegisterEnvelope(env)
    THEN Outcome(IF r.OnRegister THEN <<env.ReturnPeerID>> ELSE <<>>, <<>>, <<>>,
                 env, env, "register")
    ELSE IF TTLExpired(env)
    THEN Outcome(<<>>, <<>>, <<>>, env, env, "ttl expired")
    ELSE IF ~IsForMe(r, env)
    THEN Forward(r, env)
    ELSE IF env.InnerLen = 0 \/ Len(env.InnerPayload) = 0
    THEN Outcome(<<>>, <<>>, <<>>, env, env, "empty")
    ELSE LET u == Unmarshal(env.InnerPayload) IN
         IF u.ok
         THEN Unwrapped(r, env, HandleEnvelope(r, u.env))
         ELSE Deliver(r, env)

-----------------------------------------------------------------------------
(* Inner-payload crypto: AES-GCM, nonce || ciphertext || tag *)

NonceSize == 12
TagSize == 16

RECURSIVE SumRange(_, _, _)
\* bytes[lo] + ... + bytes[hi]
SumRange(bytes, lo, hi) ==
    IF lo > hi THEN 0
    ELSE IF lo = hi THEN bytes[lo]
    ELSE LET mid == (lo + hi) \div 2 IN
         SumRange(bytes, lo, mid) + SumRange(bytes, mid + 1, hi)

Sum(bytes) == SumRange(bytes, 1, Len(bytes))

\* aes.NewCipher accepts keys of 16, 24 or 32 bytes
ValidKey(key) == Len(key) \in {16, 24, 32}

\* the key stream byte at position i under (key, nonce)
KeyStream(key, nonce, i) ==
    (key[1 + (i % Len(key))] + nonce[1 + (i % NonceSize)] + i) % 256

\* the authentication tag of a plaintext under (key, nonce)
Tag(key, nonce, plain) ==
    LET s == Sum(plain) IN
    [j \in 1..TagSize |->
        (s + Len(plain) + key[1 + (j % Len(key))] + nonce[1 + (j % NonceSize)]) % 256]

\* aead.Seal(nil, nonce, plaintext, nil)
Seal(key, nonce, plain) ==
    [i \in 1..Len(plain) |-> (plain[i] + KeyStream(key, nonce, i)) % 256]
       \o Tag(key, nonce, plain)

\* aead.Open(nil, nonce, ciphertext, nil)
Open(key, nonce, ct) ==
    IF Len(ct) < TagSize THEN [ok |-> FALSE]
    ELSE LET n == Len(ct) - TagSize
             plain == [i \in 1..n |-> (ct[i] + 256 - KeyStream(key, nonce, i)) % 256]
         IN IF SubSeq(ct, n + 1, Len(ct)) = Tag(key, nonce, plain)
            THEN [ok |-> TRUE, plain |-> plain]
            ELSE [ok |-> FALSE]

\* e.Flags |= FlagEncrypted
SetFlag(flags, bit) == IF (flags \div bit) % 2 = 1 THEN flags ELSE flags + bit
\* e.Flags &^= FlagEncrypted
ClearFlag(flags, bit) == IF (flags \div bit) % 2 = 1 THEN flags - bit ELSE flags

\* EncryptInner(e, key) with the nonce rand.Read returned
EncryptInner(e, key, nonce) ==
    IF Len(e.InnerPayload) = 0 THEN [ok |-> TRUE, env |-> e]
    ELSE IF ~ValidKey(key) THEN [ok |-> FALSE, err |-> "aes.NewCipher"]
    ELSE LET out == nonce \o Seal(key, nonce, e.InnerPayload) IN
         [ok |-> TRUE,
          env |-> [e EXCEPT !.InnerPayload = out, !.InnerLen = U16(Len(out)),
                            !.Flags = SetFlag(@, FlagEncrypted)]]

\* DecryptInner(e, key)
DecryptInner(e, key) ==
    IF (e.Flags \div FlagEncrypted) % 2 = 0 THEN [ok |-> TRUE, env |-> e]
    ELSE IF Len(e.InnerPayload) = 0
    THEN [ok |-> FALSE, err |-> "encrypted flag set but payload empty"]
    ELSE IF ~ValidKey(key) THEN [ok |-> FALSE, err |-> "aes.NewCipher"]
    ELSE IF Len(e.InnerPayload) < NonceSize
    THEN [ok |-> FALSE, err |-> "payload too short for nonce"]
    ELSE LET o == Open(key, SubSeq(e.InnerPayload, 1, NonceSize),
                       SubSeq(e.InnerPayload, NonceSize + 1, Len(e.InnerPayload))) IN
         IF ~o.ok THEN [ok |-> FALSE, err |-> "aead.Open"]
         ELSE [ok |-> TRUE,
               env |-> [e EXCEPT !.InnerPayload = o.plain, !.InnerLen = U16(Len(o.plain)),
                                 !.Flags = ClearFlag(@, FlagEncrypted)]]

-----------------------------------------------------------------------------
(* Envelope strategies *)

DefaultTTL == 5

\* SimpleStrategy.BuildOutgoing(ctx) for SimpleStrategy{Key: key, DefaultTTL: 5}
SimpleBuildOutgoing(key, from, to, payload, nonce) ==
    LET env == Envelope(1, 0, DefaultTTL, to, from, U16(Len(payload)), payload) IN
    IF Len(key) > 0 THEN EncryptInner(env, key, nonce) ELSE [ok |-> TRUE, env |-> env]

\* SimpleStrategy.HandleIncoming(env): (next, isBusiness, err)
SimpleHandleIncoming(key, env) ==
    IF (env.Flags \div FlagEncrypted) % 2 = 1 /\ Len(key) > 0
    THEN LET d == DecryptInner(env, key) IN
         IF d.ok THEN [ok |-> TRUE, next |-> d.env, isBusiness |-> TRUE]
         ELSE [ok |-> FALSE]
    ELSE [ok |-> TRUE, next |-> env, isBusiness |-> TRUE]

RECURSIVE Wrap(_, _, _)
\* the loop of OnionStrategy.BuildEnvelope: wrap inner in path[i], i = Len(path)..1
Wrap(inner, from, path) ==
    IF path = <<>> THEN inner
    ELSE Wrap(BuilderBuild(1, 0, 5, path[Len(path)], from, Marshal(inner)),
              from, SubSeq(path, 1, Len(path) - 1))

\* OnionStrategy.BuildEnvelope(dest, from, payload, path)
OnionBuildEnvelope(dest, from, payload, path) ==
    Wrap(BuilderBuild(1, 0, 5, dest, from, payload), from, path)

-----------------------------------------------------------------------------
(* Address registry *)

Registry(book, rev) == [addrBook |-> book, revBook |-> rev]

Contains(seq, x) == \E i \in DOMAIN seq : seq[i] = x

\* rr.addrBook[id], nil when absent
Book(reg, id) == IF id \in DOMAIN reg.addrBook THEN reg.addrBook[id] ELSE <<>>

\* RelayRegistry.RegisterStatic
RegisterStatic(reg, id, addr) ==
    Registry((id :> Append(Book(reg, id), addr)) @@ reg.addrBook,
             (addr :> id) @@ reg.revBook)

\* the reverse entry is written only when addr has none
RegisterPeer_KeepRev(reg, id, addr) ==
    Registry((id :> IF Contains(Book(reg, id), addr) THEN Book(reg, id)
                    ELSE Append(Book(reg, id), addr)) @@ reg.addrBook,
             reg.revBook @@ (addr :> id))

\* RelayRegistry.RegisterPeer
RegisterPeer(reg, id, addr) ==
    Registry((id :> IF Contains(Book(reg, id), addr) THEN Book(reg, id)
                    ELSE Append(Book(reg, id), addr)) @@ reg.addrBook,
             (addr :> id) @@ reg.revBook)

\* RelayRegistry.Resolver
Resolver(reg, id) == Book(reg, id)

\* RelayRegistry.PeerByAddr: (id, ok)
PeerByAddr(reg, addr) ==
    IF addr \in DOMAIN reg.revBook THEN [ok |-> TRUE, id |-> reg.revBook[addr]]
    ELSE [ok |-> FALSE, id |-> ZeroID]

-----------------------------------------------------------------------------
(* Hosts, their addresses and the transport *)

\* the address a host listens on, and the local address its dials come from
ListenAddr(h) == CASE h = IdA -> "127.0.0.1:9403"
                   [] h = IdR -> "127.0.0.1:9401"
                   [] h = IdB -> "127.0.0.1:9402"
DialAddr(h) == CASE h = IdA -> "127.0.0.1:50403"
                 [] h = IdR -> "127.0.0.1:50401"
                 [] h = IdB -> "127.0.0.1:50402"

Listening(addr) == \E h \in Hosts : ListenAddr(h) = addr

\* the outcomes the transport allows for the addresses tried in order: the
\* index of the first address on which dial, open, write and close all
\* succeed, or 0 when every address fails
TransportOutcomes(addrs) == {0} \cup {i \in DOMAIN addrs : Listening(addrs[i])}

\* PeerManager.SendToPeer(id, env) called on host h, the transport answering k:
\* the error, or the stream that was written and closed
SendToPeer(reg, h, id, env, k) ==
    LET addrs == Resolver(reg, id) IN
    IF Len(addrs) = 0 THEN [ok |-> FALSE, err |-> "no address for peer"]
    ELSE IF k \notin DOMAIN addrs \/ ~Listening(addrs[k])
    THEN [ok |-> FALSE, err |-> "dial failed"]
    ELSE [ok |-> TRUE,
          stream |-> [to |-> addrs[k], remote |-> DialAddr(h),
                      data |-> FrameBuild(FrameTypeNormal, Marshal(env))]]

\* the router of a host built by Builder.Build
HostRouter(h) == Router(h, TRUE, "direct", <<>>, TRUE, TRUE)

IncomingCap == 128

\* the delivery with a buffer that always has room
HandleBusinessEnvelopeFromRouter_Unbounded(queue, isClosed, key, env) ==
    IF isClosed THEN queue
    ELSE Append(queue, [From |-> env.ReturnPeerID, Payload |-> env.InnerPayload,
                        Env |-> env])

\* Socket.handleBusinessEnvelopeFromRouter(env) on a socket with strategy
\* SimpleStrategy{key}: the incoming channel afterwards
HandleBusinessEnvelopeFromRouter(queue, isClosed, key, env) ==
    IF isClosed THEN queue
    ELSE LET hi == SimpleHandleIncoming(key, env)
             finalEnv == IF hi.ok THEN hi.next ELSE env
             msg == [From |-> finalEnv.ReturnPeerID,
                     Payload |-> finalEnv.InnerPayload,
                     Env |-> finalEnv]
         IN IF Len(queue) < IncomingCap THEN Append(queue, msg) ELSE queue

-----------------------------------------------------------------------------
(* Inputs *)

Hi == <<104, 105>>

\* application payloads: empty, short, one header long and all zero, longer,
\* one header long but announcing more inner bytes than follow
AppPayloads == {<<>>, Hi, Rep(0, EnvHeaderSize), Rep(0, EnvHeaderSize + 8),
                Rep(1, EnvHeaderSize)}

FlagSet == {0, FlagEncrypted, FlagRPC, FlagRegister, FlagRegister + FlagEncrypted}
TTLSet == (0..MaxTTL) \cup {5, 255}

RECURSIVE Nested(_)
\* marshaled envelopes holding d further envelope layers
Nested(d) ==
    IF d = 0
    THEN {Marshal(BuilderBuild(1, f, t, dst, IdA, p)) :
            f \in {0, FlagRegister}, t \in {0, 1}, dst \in {IdR, IdB}, p \in {<<>>, Hi}}
    ELSE {Marshal(BuilderBuild(1, 0, t, dst, IdA, n)) :
            t \in {0, 1}, dst \in {IdR, IdB}, n \in Nested(d - 1)}

InnerSet == AppPayloads \cup UNION {Nested(d) : d \in 0..MaxDepth}

\* the envelopes a router is handed
RouterEnvs ==
    {BuilderBuild(1, f, t, dst, ret, p) :
        f \in FlagSet, t \in TTLSet, dst \in {IdR, IdB, IdZ}, ret \in {IdA}, p \in InnerSet}

\* the router of a host (Builder.Build), a router with nothing bound, a
\* router over a route table that knows only Bob, and routers that lack only
\* Send or only NextHop
RouterConfigs ==
    {Router(IdR, TRUE, "direct", <<>>, TRUE, TRUE),
     Router(IdR, FALSE, "nil", <<>>, FALSE, FALSE),
     Router(IdR, TRUE, "table", [d \in {IdB} |-> IdB], TRUE, TRUE),
     Router(IdR, TRUE, "direct", <<>>, FALSE, TRUE),
     Router(IdR, TRUE, "nil", <<>>, TRUE, TRUE)}

-----------------------------------------------------------------------------
(* The router alone: one HandleEnvelope call per step *)

NoJob == [kind |-> "none"]
NoCall == [kind |-> "none"]

\* RouteTable.kad while it is nil
NoKad == [kind |-> "nil"]
\* NewRouteTable: selfID, direct and kad
NewRouteTable == [selfID |-> ZeroID, direct |-> <<>>, kad |-> NoKad]

NoSnap == [held |-> FALSE]

\* no routers joined
NoMesh == [nextHop |-> <<>>, sends |-> 0]

\* every node process runs its ListenAndServe loop; no stream accepted yet
NodesUp == [running |-> [h \in Hosts |-> TRUE], accepted |-> 0]

\* an empty pool, nothing dialed, no list handed out, every channel open
InitOthers ==
    /\ conns = <<>>
    /\ dials = 0
    /\ snap = NoSnap
    /\ chanCloses = [h \in Hosts |-> 0]
    /\ payloadCalls = 0
    /\ mu = 0
    /\ procs = <<>>
    /\ given = NoCall
    /\ encoded = NoCall
    /\ decoded = NoCall
    /\ routes = NewRouteTable
    /\ node = NodesUp
    /\ mesh = NoMesh

InitQuiet ==
    /\ InitOthers
    /\ addrBook = [p \in PeerIDs |-> <<>>]
    /\ revBook = <<>>
    /\ wire = <<>>
    /\ incoming = [h \in Hosts |-> <<>>]
    /\ closed = [h \in Hosts |-> FALSE]
    /\ lost = FALSE
    /\ delivered = [h \in Hosts |-> <<>>]
    /\ stratKey = <<>>
    /\ job = NoJob

\* the router and the envelope of the call are drawn here
InitRouter ==
    /\ InitQuiet
    /\ \E r \in RouterConfigs, env \in RouterEnvs :
          last = [kind |-> "call", r |-> r, env |-> env]

\* r.HandleEnvelope(env), start to return
RouterHandle ==
    /\ last.kind = "call"
    /\ last' = [kind |-> "router", r |-> last.r, env |-> last.env,
                res |-> HandleEnvelope(last.r, last.env)]
    /\ UNCHANGED <<addrBook, revBook, wire, incoming, closed, stratKey, job, delivered, lost>>
    /\ UNCHANGED others

NextRouter == RouterHandle

SpecRouter == InitRouter /\ [][NextRouter]_vars

-----------------------------------------------------------------------------
(* The network: three hosts built by Builder.Build over one shared registry *)

Key32 == Rep(7, 32)
Nonces == {Rep(9, NonceSize), [i \in 1..NonceSize |-> i]}

\* the relay paths of an onion
RECURSIVE Paths(_)
Paths(n) == IF n = 0 THEN {<<>>}
            ELSE Paths(n - 1) \cup {Append(q, x) : q \in {y \in Paths(n - 1) : Len(y) = n - 1}, x \in Hosts}

\* the envelopes a peer writes to another with PeerManager.SendToPeer
RawEnvs ==
    {BuilderBuild(1, f, t, dst, IdA, p) :
        f \in {0, FlagEncrypted, FlagRegister}, t \in TTLSet, dst \in Hosts,
        p \in {<<>>, Hi, Marshal(BuilderBuild(1, 0, 5, IdB, IdA, Hi))}}

Reg == Registry(addrBook, revBook)

RemoveAt(seq, i) == SubSeq(seq, 1, i - 1) \o SubSeq(seq, i + 1, Len(seq))

HostAt(addr) == CHOOSE h \in Hosts : ListenAddr(h) = addr

\* reg.RegisterStatic(selfID, listenAddr) of each Builder.Build
StaticRegistry ==
    RegisterStatic(
        RegisterStatic(
            RegisterStatic(Registry(<<>>, <<>>), IdR, ListenAddr(IdR)),
            IdB, ListenAddr(IdB)),
        IdA, ListenAddr(IdA))

Init ==
    /\ InitOthers
    /\ addrBook = StaticRegistry.addrBook
    /\ revBook = StaticRegistry.revBook
    /\ wire = <<>>
    /\ incoming = [h \in Hosts |-> <<>>]
    /\ closed = [h \in Hosts |-> FALSE]
    /\ delivered = [h \in Hosts |-> <<>>]
    /\ lost = FALSE
    /\ stratKey \in {<<>>, Key32}
    /\ job = NoJob
    /\ last = NoCall

Job(kind, from, to, payload, path, env, result) ==
    [kind |-> kind, from |-> from, to |-> to, payload |-> payload, path |-> path,
     env |-> env, result |-> result]

\* the effect of one SendToPeer call on the wire
Transmit(h, id, env, k) ==
    LET s == SendToPeer(Reg, h, id, env, k) IN
    /\ k \in TransportOutcomes(Resolver(Reg, id))
    /\ wire' = IF s.ok THEN Append(wire, s.stream) ELSE wire
    /\ lost' = (lost \/ ~s.ok)

\* RouterEnvelopeSender.SendEnvelope(env): "ok", or the error returned
SendEnvelope(r, env) ==
    IF r.NextHop = "nil" \/ ~r.Send THEN "NextHop or Send is not set"
    ELSE IF ~NextHop(r, env.DestPeerID).ok THEN "no route"
    ELSE "ok"

\* Socket.Send(dest, payload) on host h
SocketSend(h, dest, payload, nonce, k) ==
    /\ job = NoJob
    /\ IF closed[h]
       THEN /\ job' = Job("socket", h, dest, payload, <<>>, <<>>, "socket already closed")
            /\ UNCHANGED <<wire, lost>>
       ELSE LET b == SimpleBuildOutgoing(stratKey, h, dest, payload, nonce) IN
            IF ~b.ok
            THEN /\ job' = Job("socket", h, dest, payload, <<>>, <<>>, "BuildOutgoing failed")
                 /\ UNCHANGED <<wire, lost>>
            ELSE LET res == SendEnvelope(HostRouter(h), b.env) IN
                 /\ job' = Job("socket", h, dest, payload, <<>>, b.env, res)
                 /\ IF res = "ok"
                    THEN Transmit(h, NextHop(HostRouter(h), b.env.DestPeerID).hop, b.env, k)
                    ELSE UNCHANGED <<wire, lost>>
    /\ UNCHANGED <<addrBook, revBook, incoming, closed, stratKey, delivered, last>>
    /\ UNCHANGED others

\* onion.BuildEnvelope(dest, from, payload, path), then
\* PeerMgr.SendToPeer(first relay, env)
OnionSend(h, dest, payload, path, k) ==
    /\ job = NoJob
    /\ LET env == OnionBuildEnvelope(dest, h, payload, path)
           first == IF path = <<>> THEN dest ELSE path[1] IN
       /\ job' = Job("onion", h, dest, payload, path, env, "ok")
       /\ Transmit(h, first, env, k)
    /\ UNCHANGED <<addrBook, revBook, incoming, closed, stratKey, delivered, last>>
    /\ UNCHANGED others

\* PeerMgr.SendToPeer(to, env) with an envelope the peer built itself
RawSend(h, to, env, k) ==
    /\ job = NoJob
    /\ job' = Job("raw", h, to, env.InnerPayload, <<>>, env, "ok")
    /\ Transmit(h, to, env, k)
    /\ UNCHANGED <<addrBook, revBook, incoming, closed, stratKey, delivered, last>>
    /\ UNCHANGED others

\* if env.Flags == 1 && n.OnRegisterPeer != nil
NodeIsRegister(env) == env.Flags = 1

\* Node.handleStream up to the hand-over: decode the frame, unmarshal the
\* envelope, REGISTER or Router.HandleEnvelope.  A panic inside frame.Decode
\* is recovered nowhere on the goroutine's stack.
Dispatch(reg, h, stream) ==
    LET f == FrameDecode(stream.data) IN
    IF ~f.ok THEN [dispatch |-> IF f.err = "panic" THEN "panic" ELSE "frame error"]
    ELSE LET u == Unmarshal(f.payload) IN
         IF ~u.ok THEN [dispatch |-> "envelope error"]
         ELSE IF NodeIsRegister(u.env)
         THEN [dispatch |-> "register", env |-> u.env]
         ELSE [dispatch |-> "router", env |-> u.env,
               from |-> PeerByAddr(reg, stream.remote).id,
               res |-> HandleEnvelope(HostRouter(h), u.env)]

RECURSIVE EnqueueAll(_, _, _, _)
\* OnPayload for each envelope in turn
EnqueueAll(queue, isClosed, key, envs) ==
    IF envs = <<>> THEN queue
    ELSE EnqueueAll(HandleBusinessEnvelopeFromRouter(queue, isClosed, key, Head(envs)),
                    isClosed, key, Tail(envs))

\* the outcomes the transport allows for the Send calls of a dispatch
SendOutcomes(d) ==
    IF d.dispatch = "router" /\ d.res.sends # <<>>
    THEN TransportOutcomes(Resolver(Reg, d.res.sends[1].nextHop))
    ELSE {0}

\* Node.handleStream on the stream wire[i], start to return; a goroutine that
\* panics ends the node's process
HandleStream(i, k) ==
    LET s == wire[i]
        h == HostAt(s.to)
        d == Dispatch(Reg, h, s)
        rest == RemoveAt(wire, i)
    IN
    /\ node.running[h]
    /\ node' = [node EXCEPT !.running[h] = (d.dispatch # "panic")]
    /\ k \in SendOutcomes(d)
    /\ last' = [kind |-> "stream", node |-> h, stream |-> s] @@ d
    /\ IF d.dispatch = "register"
       THEN LET reg == RegisterPeer(Reg, d.env.ReturnPeerID, s.remote) IN
            /\ addrBook' = reg.addrBook
            /\ revBook' = reg.revBook
            /\ wire' = rest
            /\ UNCHANGED <<incoming, delivered, lost>>
       ELSE IF d.dispatch = "router"
       THEN LET out == [j \in DOMAIN d.res.sends |->
                          SendToPeer(Reg, h, d.res.sends[j].nextHop, d.res.sends[j].env, k)]
                okay == SelectSeq(out, LAMBDA o : o.ok)
            IN
            /\ wire' = rest \o [j \in DOMAIN okay |-> okay[j].stream]
            /\ lost' = (lost \/ Len(okay) < Len(out))
            /\ delivered' = [delivered EXCEPT ![h] = @ \o d.res.payloads]
            /\ incoming' = [incoming EXCEPT
                              ![h] = EnqueueAll(@, closed[h], stratKey, d.res.payloads)]
            /\ UNCHANGED <<addrBook, revBook>>
       ELSE /\ wire' = rest
            /\ UNCHANGED <<addrBook, revBook, incoming, delivered, lost>>
    /\ UNCHANGED <<closed, stratKey, job>>
    /\ UNCHANGED <<conns, dials, snap, chanCloses, payloadCalls, mu, procs, given, encoded, decoded,
                   routes, mesh>>

\* an address list holds at most the static address and one dial address per host
Attempts == 0..(1 + Cardinality(Hosts))

Next ==
    \/ \E h \in Hosts, dest \in PeerIDs, payload \in AppPayloads,
          nonce \in (IF stratKey = <<>> THEN {Rep(9, NonceSize)} ELSE Nonces),
          k \in Attempts :
          SocketSend(h, dest, payload, nonce, k)
    \/ \E h \in Hosts, dest \in Hosts, payload \in AppPayloads,
          path \in Paths(MaxPath), k \in Attempts :
          OnionSend(h, dest, payload, path, k)
    \/ \E to \in Hosts, env \in RawEnvs, k \in Attempts : RawSend(IdA, to, env, k)
    \/ \E i \in DOMAIN wire, k \in Attempts : HandleStream(i, k)

Spec == Init /\ [][Next]_vars

-----------------------------------------------------------------------------
(* The sockets: Close, Send and the inbound path of the three hosts *)

\* Close without the test of the closed flag
Close_Unguarded(isClosed, n) == [closed |-> TRUE, chanCloses |-> n + 1, err |-> "nil"]

\* Socket.Close() on a socket whose closed flag is isClosed and whose channel
\* has been closed n times: the flag, the channel closes and the error after
Close(isClosed, n) ==
    IF isClosed THEN [closed |-> TRUE, chanCloses |-> n, err |-> "nil"]
    ELSE [closed |-> TRUE, chanCloses |-> n + 1, err |-> "nil"]

\* h.Socket.Close(), start to return
SocketClose(h) ==
    LET c == Close(closed[h], chanCloses[h]) IN
    /\ closed' = [closed EXCEPT ![h] = c.closed]
    /\ chanCloses' = [chanCloses EXCEPT ![h] = c.chanCloses]
    /\ last' = [kind |-> "close", host |-> h, wasClosed |-> closed[h], err |-> c.err]
    /\ UNCHANGED <<addrBook, revBook, wire, incoming, stratKey, job, delivered, lost>>
    /\ UNCHANGED <<conns, dials, snap, payloadCalls, mu, procs, given, encoded, decoded, routes, node, mesh>>

NextSocket ==
    \/ \E h \in Hosts : SocketClose(h)
    \/ \E h \in Hosts, dest \in PeerIDs, payload \in AppPayloads,
          nonce \in (IF stratKey = <<>> THEN {Rep(9, NonceSize)} ELSE Nonces),
          k \in Attempts :
          SocketSend(h, dest, payload, nonce, k)
    \/ \E i \in DOMAIN wire, k \in Attempts : HandleStream(i, k)

SpecSocket == Init /\ [][NextSocket]_vars

-----------------------------------------------------------------------------
(* One socket under load: the router delivers, the application receives *)

\* the host whose socket is loaded
BufHost == IdB

\* the n-th business envelope a router hands over: the payload numbers it
Numbered(n) == BuilderBuild(1, 0, 5, BufHost, IdA, <<n \div 256, n % 256>>)

\* r.OnPayload(env) of the host h, bound to handleBusinessEnvelopeFromRouter;
\* the calls are counted in payloadCalls
OnPayload(h) ==
    LET env == Numbered(payloadCalls)
        queue == HandleBusinessEnvelopeFromRouter(incoming[h], closed[h], stratKey, env)
    IN
    /\ payloadCalls < MaxDeliveries
    /\ payloadCalls' = payloadCalls + 1
    /\ incoming' = [incoming EXCEPT ![h] = queue]
    /\ last' = [kind |-> "onpayload", host |-> h,
                dropped |-> ~closed[h] /\ queue = incoming[h]]
    /\ UNCHANGED <<addrBook, revBook, wire, closed, stratKey, job, delivered, lost>>
    /\ UNCHANGED <<conns, dials, snap, chanCloses, mu, procs, given, encoded, decoded, routes, node, mesh>>

\* msg := <-sock.Recv()
Recv(h) ==
    /\ incoming[h] # <<>>
    /\ incoming' = [incoming EXCEPT ![h] = Tail(@)]
    /\ last' = [kind |-> "recv", host |-> h]
    /\ UNCHANGED <<addrBook, revBook, wire, closed, stratKey, job, delivered, lost>>
    /\ UNCHANGED others

InitBuffer == InitQuiet /\ last = NoCall

NextBuffer ==
    \/ OnPayload(BufHost)
    \/ Recv(BufHost)

SpecBuffer == InitBuffer /\ [][NextBuffer]_vars

-----------------------------------------------------------------------------
(* The address registry alone: registrations and lookups, one call per step *)

\* the peers and addresses registered
RegIds == {IdA, IdB}
RegAddrs == {ListenAddr(IdA), DialAddr(IdA)}

\* the slice of the registry's own array, handed out as it is
Snapshot_NoCopy(reg, id) ==
    [held |-> TRUE, id |-> id, list |-> Resolver(reg, id), shared |-> TRUE]

\* what the caller of Resolver gets: cp, a slice over a fresh array
Snapshot(reg, id) ==
    [held |-> TRUE, id |-> id, list |-> Resolver(reg, id), shared |-> FALSE]

\* rr.RegisterStatic(id, addr), lock to unlock
RegStatic(id, addr) ==
    LET reg == RegisterStatic(Reg, id, addr) IN
    /\ Len(Book(Reg, id)) < MaxAddrs
    /\ addrBook' = reg.addrBook
    /\ revBook' = reg.revBook
    /\ last' = [kind |-> "RegisterStatic", id |-> id, addr |-> addr]
    /\ UNCHANGED <<wire, incoming, closed, stratKey, job, delivered, lost>>
    /\ UNCHANGED others

\* rr.RegisterPeer(id, addr), lock to unlock
RegPeer(id, addr) ==
    LET reg == RegisterPeer(Reg, id, addr) IN
    /\ Len(Book(Reg, id)) < MaxAddrs
    /\ addrBook' = reg.addrBook
    /\ revBook' = reg.revBook
    /\ last' = [kind |-> "RegisterPeer", id |-> id, addr |-> addr]
    /\ UNCHANGED <<wire, incoming, closed, stratKey, job, delivered, lost>>
    /\ UNCHANGED others

\* addrs := rr.Resolver(id), read-lock to unlock; the caller keeps addrs
Resolve(id) ==
    /\ snap' = Snapshot(Reg, id)
    /\ last' = [kind |-> "Resolver", id |-> id]
    /\ UNCHANGED <<addrBook, revBook, wire, incoming, closed, stratKey, job, delivered, lost>>
    /\ UNCHANGED <<conns, dials, chanCloses, payloadCalls, mu, procs, given, encoded, decoded, routes, node, mesh>>

\* addrs[i] = "0.0.0.0:0" by the caller; the write lands in the registry's
\* array when the slice shares it
Scribble(i) ==
    /\ snap.held
    /\ i \in DOMAIN snap.list
    /\ snap' = [snap EXCEPT !.list[i] = "0.0.0.0:0"]
    /\ addrBook' = IF snap.shared
                   THEN [addrBook EXCEPT ![snap.id][i] = "0.0.0.0:0"]
                   ELSE addrBook
    /\ last' = [kind |-> "scribble", id |-> snap.id]
    /\ UNCHANGED <<revBook, wire, incoming, closed, stratKey, job, delivered, lost>>
    /\ UNCHANGED <<conns, dials, chanCloses, payloadCalls, mu, procs, given, encoded, decoded, routes, node, mesh>>

InitRegistry == InitQuiet /\ last = NoCall

NextRegistry ==
    \/ \E id \in RegIds, addr \in RegAddrs : RegStatic(id, addr)
    \/ \E id \in RegIds, addr \in RegAddrs : RegPeer(id, addr)
    \/ \E id \in RegIds : Resolve(id)
    \/ \E i \in 1..MaxAddrs : Scribble(i)

SpecRegistry == InitRegistry /\ [][NextRegistry]_vars

-----------------------------------------------------------------------------
(* The peer manager alone: one PeerManager over a registry and a pool *)

\* the failing step of an address attempt, or "ok"
Steps == {"dial", "open", "write", "close", "ok"}

NoConn == [serial |-> 0, done |-> TRUE]
NoErr == [step |-> "ok", addr |-> ""]

\* conn.Context().Err() == nil
Healthy(conn) == ~conn.done

\* the pool entry is reused whatever its context says
getConn_AnyPooled(pool, n, addr, dialOk) ==
    IF addr \in DOMAIN pool
    THEN [ok |-> TRUE, conn |-> pool[addr], pool |-> pool, dials |-> n,
          pooled |-> IF Healthy(pool[addr]) THEN "healthy" ELSE "done",
          dialed |-> FALSE]
    ELSE IF ~dialOk
    THEN [ok |-> FALSE, conn |-> NoConn, pool |-> pool, dials |-> n + 1,
          pooled |-> "none", dialed |-> TRUE]
    ELSE [ok |-> TRUE, conn |-> [serial |-> n + 1, done |-> FALSE],
          pool |-> (addr :> [serial |-> n + 1, done |-> FALSE]) @@ pool,
          dials |-> n + 1, pooled |-> "none", dialed |-> TRUE]

\* pm.getConn(addr) with n dials made so far; dialOk tells whether a dial
\* would succeed.  Gives the connection or the error, the pool and the dial
\* count afterwards, what the pool held at the lookup and whether Dial ran
getConn(pool, n, addr, dialOk) ==
    LET conn == IF addr \in DOMAIN pool THEN pool[addr] ELSE NoConn
        pooled == IF addr \notin DOMAIN pool THEN "none"
                  ELSE IF Healthy(conn) THEN "healthy" ELSE "done"
        newConn == [serial |-> n + 1, done |-> FALSE]
    IN
    IF pooled = "healthy"
    THEN [ok |-> TRUE, conn |-> conn, pool |-> pool, dials |-> n,
          pooled |-> pooled, dialed |-> FALSE]
    ELSE IF ~dialOk
    THEN [ok |-> FALSE, conn |-> NoConn, pool |-> pool, dials |-> n + 1,
          pooled |-> pooled, dialed |-> TRUE]
    ELSE [ok |-> TRUE, conn |-> newConn, pool |-> (addr :> newConn) @@ pool,
          dials |-> n + 1, pooled |-> pooled, dialed |-> TRUE]

\* the first error is kept
SetLastErr_KeepFirst(lastErr, step, addr) ==
    IF lastErr.step = "ok" THEN [step |-> step, addr |-> addr] ELSE lastErr

\* lastErr = fmt.Errorf("<step> ... %s failed", addr)
SetLastErr(lastErr, step, addr) == [step |-> step, addr |-> addr]

\* the loop body returning nil once the frame is written, without Close
StreamOps_NoClose(env, out) ==
    LET raw == FrameBuild(FrameTypeNormal, Marshal(env)) IN
    IF out \in {"dial", "open"} THEN <<>>
    ELSE IF out = "write"
    THEN <<[op |-> "open"], [op |-> "write", ok |-> FALSE, data |-> raw]>>
    ELSE <<[op |-> "open"], [op |-> "write", ok |-> TRUE, data |-> raw]>>

\* what one pass of the loop body does to the stream it opens, when the pass
\* ends at step out: conn.OpenUniStream(), stream.Write(f.Raw), stream.Close()
StreamOps(env, out) ==
    LET raw == FrameBuild(FrameTypeNormal, Marshal(env)) IN
    IF out \in {"dial", "open"} THEN <<>>
    ELSE IF out = "write"
    THEN <<[op |-> "open"], [op |-> "write", ok |-> FALSE, data |-> raw]>>
    ELSE <<[op |-> "open"], [op |-> "write", ok |-> TRUE, data |-> raw],
           [op |-> "close", ok |-> out = "ok"]>>

RECURSIVE TryFrom(_, _, _, _, _, _, _)
\* the loop of SendToPeer from addrs[i] on, outs[j] being what the transport
\* does at addrs[j]: the attempts made, in order, and lastErr at the end
TryFrom(pool, n, addrs, env, outs, i, lastErr) ==
    IF i > Len(addrs)
    THEN [pool |-> pool, dials |-> n, tried |-> <<>>, ok |-> FALSE, err |-> lastErr]
    ELSE LET g == getConn(pool, n, addrs[i], outs[i] # "dial")
             out == IF g.ok THEN outs[i] ELSE "dial"
             a == [addr |-> addrs[i], pooled |-> g.pooled, dialed |-> g.dialed,
                   conn |-> g.conn, out |-> out, ops |-> StreamOps(env, out)]
         IN IF out = "ok"
            THEN [pool |-> g.pool, dials |-> g.dials, tried |-> <<a>>, ok |-> TRUE,
                  err |-> NoErr]
            ELSE LET r == TryFrom(g.pool, g.dials, addrs, env, outs, i + 1,
                                  SetLastErr(lastErr, out, addrs[i]))
                 IN [r EXCEPT !.tried = <<a>> \o @]

\* SendToPeer entering the loop whatever the length of addrs
PeerManagerSendToPeer_NoCheck(pool, n, addrs, env, outs) ==
    LET r == TryFrom(pool, n, addrs, env, outs, 1, NoErr) IN
    [pool |-> r.pool, dials |-> r.dials, tried |-> r.tried, ok |-> r.ok,
     err |-> IF ~r.ok /\ r.err = NoErr
             THEN [step |-> "send failed: unknown error", addr |-> ""]
             ELSE r.err,
     written |-> IF r.ok THEN FrameBuild(FrameTypeNormal, Marshal(env)) ELSE <<>>]

\* pm.SendToPeer(id, env) over the pool, addrs being pm.resolve(id)
PeerManagerSendToPeer(pool, n, addrs, env, outs) ==
    IF Len(addrs) = 0
    THEN [pool |-> pool, dials |-> n, tried |-> <<>>, ok |-> FALSE,
          err |-> [step |-> "no address for peer", addr |-> ""], written |-> <<>>]
    ELSE LET r == TryFrom(pool, n, addrs, env, outs, 1, NoErr) IN
         [pool |-> r.pool, dials |-> r.dials, tried |-> r.tried, ok |-> r.ok,
          err |-> IF ~r.ok /\ r.err = NoErr
                  THEN [step |-> "send failed: unknown error", addr |-> ""]
                  ELSE r.err,
          written |-> IF r.ok THEN FrameBuild(FrameTypeNormal, Marshal(env)) ELSE <<>>]

\* the registry the peer manager resolves in: two addresses for Bob, the
\* second of them for Relay as well, one registered twice for Alice, none
\* for the fourth peer
PeerRegistry ==
    RegisterStatic(
        RegisterStatic(
            RegisterStatic(
                RegisterStatic(
                    RegisterStatic(Registry(<<>>, <<>>), IdB, ListenAddr(IdB)),
                    IdB, ListenAddr(IdR)),
                IdR, ListenAddr(IdR)),
            IdA, ListenAddr(IdA)),
        IdA, ListenAddr(IdA))

\* what a later call needs to know of the call or event before it
Summary(l) ==
    IF l.kind = "send"
    THEN [kind |-> "send", ok |-> l.ok,
          at |-> IF l.ok
                 THEN [f \in {"addr", "conn", "dialed"} |-> l.tried[Len(l.tried)][f]]
                 ELSE <<>>]
    ELSE [kind |-> l.kind]

InitPeer ==
    /\ InitOthers
    /\ addrBook = PeerRegistry.addrBook
    /\ revBook = PeerRegistry.revBook
    /\ wire = <<>>
    /\ incoming = [h \in Hosts |-> <<>>]
    /\ closed = [h \in Hosts |-> FALSE]
    /\ delivered = [h \in Hosts |-> <<>>]
    /\ lost = FALSE
    /\ stratKey = <<>>
    /\ job = NoJob
    /\ last = NoCall

\* pm.SendToPeer(id, env), start to return
PeerSend(id, outs) ==
    LET addrs == Resolver(Reg, id)
        env == BuilderBuild(1, 0, DefaultTTL, id, IdA, Hi)
        r == PeerManagerSendToPeer(conns, dials, addrs, env, outs)
    IN
    /\ DOMAIN outs = DOMAIN addrs
    /\ r.dials <= MaxDials
    /\ \A j \in DOMAIN r.tried : r.tried[j].out = "dial" => r.tried[j].dialed
    /\ \A j \in DOMAIN outs : j > Len(r.tried) => outs[j] = "ok"
    /\ conns' = r.pool
    /\ dials' = r.dials
    /\ last' = [kind |-> "send", id |-> id, env |-> env, addrs |-> addrs, outs |-> outs,
                tried |-> r.tried, ok |-> r.ok, err |-> r.err, written |-> r.written,
                before |-> [conns |-> conns, dials |-> dials],
                prev |-> Summary(last)]
    /\ UNCHANGED <<addrBook, revBook, wire, incoming, closed, stratKey, job, delivered, lost>>
    /\ UNCHANGED <<snap, chanCloses, payloadCalls, mu, procs, given, encoded, decoded, routes, node, mesh>>

\* the context of the pooled connection to addr ends (idle timeout, peer gone)
ConnDies(addr) ==
    /\ addr \in DOMAIN conns
    /\ Healthy(conns[addr])
    /\ conns' = [conns EXCEPT ![addr].done = TRUE]
    /\ last' = [kind |-> "dies", addr |-> addr]
    /\ UNCHANGED <<addrBook, revBook, wire, incoming, closed, stratKey, job, delivered, lost>>
    /\ UNCHANGED <<dials, snap, chanCloses, payloadCalls, mu, procs, given, encoded, decoded, routes, node, mesh>>

NextPeer ==
    \/ \E id \in PeerIDs :
          \E outs \in [1..Len(Resolver(Reg, id)) -> Steps] : PeerSend(id, outs)
    \/ \E h \in Hosts : ConnDies(ListenAddr(h))

SpecPeer == InitPeer /\ [][NextPeer]_vars

-----------------------------------------------------------------------------
(* Concurrent senders inside getConn: one step per lock, unlock and dial *)

\* the goroutines calling pm.getConn at the same time
Senders == 1..2

\* a goroutine about to call getConn(addr)
Caller(addr) == [pc |-> "start", addr |-> addr, conn |-> NoConn, ins |-> 0]

\* the number of pm.conns[addr] = newConn executions so far
Inserts == Cardinality({g \in DOMAIN procs : procs[g].ins > 0})

\* the pool is empty or holds a connection whose context is done; each
\* goroutine is given its address
InitDial ==
    /\ addrBook = PeerRegistry.addrBook
    /\ revBook = PeerRegistry.revBook
    /\ wire = <<>>
    /\ incoming = [h \in Hosts |-> <<>>]
    /\ closed = [h \in Hosts |-> FALSE]
    /\ delivered = [h \in Hosts |-> <<>>]
    /\ lost = FALSE
    /\ stratKey = <<>>
    /\ job = NoJob
    /\ last = NoCall
    /\ dials = 0
    /\ snap = NoSnap
    /\ chanCloses = [h \in Hosts |-> 0]
    /\ payloadCalls = 0
    /\ mu = 0
    /\ given = NoCall
    /\ encoded = NoCall
    /\ decoded = NoCall
    /\ routes = NewRouteTable
    /\ node = NodesUp
    /\ mesh = NoMesh
    /\ \E pool \in {<<>>, (ListenAddr(IdB) :> [serial |-> 0, done |-> TRUE])} :
          conns = pool
    /\ \E a \in [Senders -> {ListenAddr(IdB), ListenAddr(IdR)}] :
          procs = [g \in Senders |-> Caller(a[g])]

DialFrame ==
    /\ UNCHANGED <<addrBook, revBook, wire, incoming, closed, stratKey, job, delivered, lost>>
    /\ UNCHANGED <<snap, chanCloses, payloadCalls, given, encoded, decoded, routes, node, mesh>>

\* pm.mu.Lock() at the head of getConn
LockLookup(g) ==
    /\ procs[g].pc = "start"
    /\ mu = 0
    /\ mu' = g
    /\ procs' = [procs EXCEPT ![g].pc = "lookup"]
    /\ last' = [kind |-> "lock", g |-> g]
    /\ UNCHANGED <<conns, dials>>
    /\ DialFrame

\* conn := pm.conns[addr]; return it if its context is healthy; pm.mu.Unlock()
LookupUnlock(g) ==
    LET a == procs[g].addr
        hit == a \in DOMAIN conns /\ Healthy(conns[a])
    IN
    /\ procs[g].pc = "lookup"
    /\ mu' = 0
    /\ procs' = [procs EXCEPT ![g].pc = IF hit THEN "return" ELSE "dial",
                              ![g].conn = IF hit THEN conns[a] ELSE NoConn]
    /\ last' = [kind |-> "lookup", g |-> g, hit |-> hit]
    /\ UNCHANGED <<conns, dials>>
    /\ DialFrame

\* ResolveUDPAddr, ListenUDP and quic.Dial
Dial(g, ok) ==
    /\ procs[g].pc = "dial"
    /\ dials' = dials + 1
    /\ procs' = [procs EXCEPT ![g].pc = IF ok THEN "dialed" ELSE "return",
                              ![g].conn = IF ok THEN [serial |-> dials + 1, done |-> FALSE]
                                          ELSE NoConn]
    /\ last' = [kind |-> "dial", g |-> g, ok |-> ok, locked |-> mu = g]
    /\ UNCHANGED <<conns, mu>>
    /\ DialFrame

\* pm.mu.Lock() before the insert
LockInsert(g) ==
    /\ procs[g].pc = "dialed"
    /\ mu = 0
    /\ mu' = g
    /\ procs' = [procs EXCEPT ![g].pc = "insert"]
    /\ last' = [kind |-> "lock", g |-> g]
    /\ UNCHANGED <<conns, dials>>
    /\ DialFrame

\* what the insert leaves in the pool
Inserted(pool, addr, newConn) == (addr :> newConn) @@ pool

\* pm.conns[addr] = newConn; pm.mu.Unlock(); return newConn
InsertUnlock(g) ==
    /\ procs[g].pc = "insert"
    /\ conns' = Inserted(conns, procs[g].addr, procs[g].conn)
    /\ mu' = 0
    /\ procs' = [procs EXCEPT ![g].pc = "return", ![g].ins = Inserts + 1]
    /\ last' = [kind |-> "insert", g |-> g]
    /\ UNCHANGED dials
    /\ DialFrame

NextDial ==
    \/ \E g \in Senders : LockLookup(g)
    \/ \E g \in Senders : LookupUnlock(g)
    \/ \E g \in Senders, ok \in BOOLEAN : Dial(g, ok)
    \/ \E g \in Senders : LockInsert(g)
    \/ \E g \in Senders : InsertUnlock(g)

SpecDial == InitDial /\ [][NextDial]_vars

-----------------------------------------------------------------------------
(* The codecs alone: an input is drawn, then encoded and decoded *)

\* the largest value of a uint16 length field
MaxUint16 == 65535

\* payload lengths around the byte boundaries of the length fields
SmallLens == {0, 1, 2, 255, 256}
EdgeLens == {MaxUint16 - 3, MaxUint16 - 2, MaxUint16 - 1, MaxUint16}

\* well-formed envelopes: inner_len = len(inner_payload) <= 65535
CodecEnvs ==
    {[Envelope(v, f, t, d, IdA, n, Rep(7, n)) EXCEPT !.Reserved = rsv] :
        v \in {1, 255}, f \in {0, FlagRegister + FlagEncrypted}, t \in {0, 255},
        d \in {IdB, ZeroID}, n \in SmallLens, rsv \in {<<0, 0, 0>>, <<1, 2, 3>>}}
      \cup {Envelope(1, 0, DefaultTTL, IdB, IdA, n, Rep(7, n)) : n \in EdgeLens}

\* frames to build: a type and a payload
CodecFrames ==
    {[t |-> t, payload |-> Rep(7, n)] : t \in {0, FrameTypeNormal, 255},
                                        n \in SmallLens \cup EdgeLens}

\* the longest plaintext whose nonce, ciphertext and tag fit a uint16 length
MaxSealed == MaxUint16 - NonceSize - TagSize

\* envelopes to encrypt, with key and nonce
CodecSecrets ==
    {[env |-> Envelope(1, f, DefaultTTL, IdB, IdA, n, Rep(7, n)), key |-> k, nonce |-> nc] :
        f \in {0, FlagRPC, FlagRegister + FlagRPC}, n \in {1, 2, EnvHeaderSize},
        k \in {Rep(7, 16), Rep(7, 24), Key32}, nc \in Nonces}
      \cup {[env |-> Envelope(1, 0, DefaultTTL, IdB, IdA, n, Rep(7, n)),
             key |-> Key32, nonce |-> Rep(9, NonceSize)] :
               n \in {MaxSealed, MaxSealed + 1}}

InitCodec == InitQuiet /\ last = NoCall

CodecFrame ==
    /\ UNCHANGED <<addrBook, revBook, wire, incoming, closed, stratKey, job, delivered, lost>>
    /\ UNCHANGED <<conns, dials, snap, chanCloses, payloadCalls, mu, procs, routes, node, mesh>>

\* data := Marshal(e); e2, err := Unmarshal(data)
EnvelopeRoundTrip ==
    /\ last.kind = "none"
    /\ \E e \in CodecEnvs :
          LET back == Unmarshal(Marshal(e)) IN
          /\ given' = e
          /\ encoded' = Marshal(e)
          /\ decoded' = IF back.ok THEN back.env ELSE NoCall
          /\ last' = [kind |-> "envelope done", ok |-> back.ok]
    /\ CodecFrame

\* f.Build(t, payload, 0); t2, p2, err := Decode(f.Raw)
FrameRoundTrip ==
    /\ last.kind = "none"
    /\ \E f \in CodecFrames :
          LET back == FrameDecode(FrameBuild(f.t, f.payload)) IN
          /\ given' = f
          /\ encoded' = FrameBuild(f.t, f.payload)
          /\ decoded' = IF back.ok THEN [t |-> back.t, payload |-> back.payload] ELSE NoCall
          /\ last' = [kind |-> "frame done", ok |-> back.ok,
                      err |-> IF back.ok THEN "" ELSE back.err]
    /\ CodecFrame

\* err := EncryptInner(e, key); e is changed in place
Encrypt ==
    /\ last.kind = "none"
    /\ \E c \in CodecSecrets :
          LET enc == EncryptInner(c.env, c.key, c.nonce) IN
          /\ given' = c.env
          /\ encoded' = IF enc.ok THEN enc.env ELSE c.env
          /\ last' = [kind |-> "sealed", key |-> c.key, ok |-> enc.ok]
    /\ UNCHANGED decoded
    /\ CodecFrame

\* err := DecryptInner(e, key) on the envelope EncryptInner left
Decrypt ==
    /\ last.kind = "sealed"
    /\ last.ok
    /\ LET dec == DecryptInner(encoded, last.key) IN
          /\ decoded' = IF dec.ok THEN dec.env ELSE encoded
          /\ last' = [kind |-> "opened", key |-> last.key, ok |-> dec.ok]
    /\ UNCHANGED <<given, encoded>>
    /\ CodecFrame

\* received bytes: a type byte, a big-endian length field and filler, the
\* whole one byte shorter than the header says, exact, or one byte longer;
\* and inputs shorter than a header
RawFrames ==
    {<<>>, <<FrameTypeNormal>>, <<FrameTypeNormal, 0>>}
      \cup UNION {{<<t, n \div 256, n % 256>> \o Rep(7, m) :
                      t \in {0, FrameTypeNormal},
                      m \in {0, n - 1, n, n + 1} \cap (0..(n + 1))} :
                   n \in {0, 1, 255, 256} \cup EdgeLens}

\* t, payload, err := frame.Decode(data)
Decode ==
    /\ last.kind = "none"
    /\ \E data \in RawFrames :
          LET back == FrameDecode(data) IN
          /\ encoded' = data
          /\ decoded' = IF back.ok THEN [t |-> back.t, payload |-> back.payload] ELSE NoCall
          /\ last' = [kind |-> "decode done", ok |-> back.ok,
                      err |-> IF back.ok THEN "" ELSE back.err]
    /\ UNCHANGED given
    /\ CodecFrame

\* the longest payload whose envelope fits the uint16 length of one frame
FrameFit == MaxUint16 - EnvHeaderSize

\* payload lengths of the everyday calls
MaxSmall == 30

\* calls that produce an envelope: the builder alone, the simple strategy
\* with and without a key, the onion strategy with 0..2 relays; small
\* payloads, and payloads at the edges of the two length fields
BuildCalls ==
    {[how |-> "builder", n |-> n, key |-> <<>>, path |-> <<>>] :
        n \in (0..MaxSmall) \cup {FrameFit, FrameFit + 1, MaxUint16 + 1}}
      \cup {[how |-> "simple", n |-> n, key |-> k, path |-> <<>>] :
               n \in 0..MaxSmall, k \in {<<>>, Key32}}
      \cup {[how |-> "simple", n |-> MaxSealed + 1, key |-> Key32, path |-> <<>>]}
      \cup {[how |-> "onion", n |-> n, key |-> <<>>, path |-> q] :
               n \in 0..MaxSmall, q \in {<<>>, <<IdR>>, <<IdR, IdB>>}}
      \cup {[how |-> "onion", n |-> FrameFit + 1, key |-> <<>>,
             path |-> <<IdR>>]}

\* the envelope the call returns
Built(c) ==
    CASE c.how = "builder" -> BuilderBuild(1, 0, DefaultTTL, IdB, IdA, Rep(7, c.n))
      [] c.how = "simple" ->
            SimpleBuildOutgoing(c.key, IdA, IdB, Rep(7, c.n), Rep(9, NonceSize)).env
      [] c.how = "onion" -> OnionBuildEnvelope(IdB, IdA, Rep(7, c.n), c.path)

\* env built by one of the producers, then env.ToFrame(f):
\* b := Marshal(env); f.Build(FrameTypeNormal, b, 0)
ToFrame ==
    /\ last.kind = "none"
    /\ \E c \in BuildCalls :
          LET b == Marshal(Built(c))
              raw == FrameBuild(FrameTypeNormal, b) IN
          /\ given' = c
          /\ encoded' = b
          /\ last' = [kind |-> "built", depth |-> Len(c.path),
                      header |-> SubSeq(raw, 1, FrameHeaderSize), written |-> Len(raw)]
    /\ UNCHANGED decoded
    /\ CodecFrame

NextCodec ==
    \/ EnvelopeRoundTrip
    \/ FrameRoundTrip
    \/ Decode
    \/ Encrypt
    \/ Decrypt

SpecCodec == InitCodec /\ [][NextCodec]_vars

\* the producers alone
NextBuild == ToFrame

SpecBuild == InitCodec /\ [][NextBuild]_vars

-----------------------------------------------------------------------------
(* The route table: static direct/via map and the Kademlia k-buckets *)

kBucketSize == 8
NumBuckets == 8 * PeerIDLength

\* a ^ b on the low n bits
RECURSIVE XorBits(_, _, _)
XorBits(a, b, n) ==
    IF n = 0 \/ a = b THEN 0
    ELSE (((a % 2) + (b % 2)) % 2) + 2 * XorBits(a \div 2, b \div 2, n - 1)

xorDistance(a, b) == [i \in 1..PeerIDLength |-> XorBits(a[i], b[i], 8)]

\* bits.LeadingZeros8
RECURSIVE BitLen(_)
BitLen(x) == IF x = 0 THEN 0 ELSE 1 + BitLen(x \div 2)
LeadingZeros8(x) == 8 - BitLen(x)

\* index of the first bit where a and b differ, -1 when a = b
bucketIndex(a, b) ==
    LET x == xorDistance(a, b)
        nz == {i \in 1..PeerIDLength : x[i] # 0} IN
    IF nz = {} THEN -1
    ELSE LET i == CHOOSE j \in nz : \A k \in nz : j <= k IN
         (i - 1) * 8 + LeadingZeros8(x[i])

\* a nil bucket and an empty one are the same to every reader
NewKademliaTable(self) == [selfID |-> self, buckets |-> [i \in 0..(NumBuckets - 1) |-> <<>>]]

\* the new ID written over the slot instead of shifting the tail down
MoveToEnd_InPlace(peers, i, id) == [peers EXCEPT ![i] = id]

\* copy(b.peers[i:], b.peers[i+1:]); b.peers[len-1] = id
MoveToEnd(peers, i, id) ==
    [j \in 1..Len(peers) |-> IF j < i THEN peers[j]
                              ELSE IF j < Len(peers) THEN peers[j + 1] ELSE id]

\* KademliaTable.Update
Update(t, id) ==
    IF Equals(id, t.selfID) THEN t
    ELSE LET idx == bucketIndex(t.selfID, id) IN
         IF idx < 0 \/ idx >= NumBuckets THEN t
         ELSE LET b == t.buckets[idx]
                  at == {i \in 1..Len(b) : Equals(b[i], id)} IN
              IF at # {}
              THEN [t EXCEPT !.buckets[idx] =
                       MoveToEnd(b, CHOOSE i \in at : \A k \in at : i <= k, id)]
              ELSE IF Len(b) < kBucketSize
              THEN [t EXCEPT !.buckets[idx] = Append(b, id)]
              ELSE [t EXCEPT !.buckets[idx] = MoveToEnd(b, 1, id)]

\* candidate.less with the bytes compared from the last one
RECURSIVE less_LittleEndian(_, _, _)
less_LittleEndian(c, other, i) ==
    IF i > PeerIDLength THEN FALSE
    ELSE LET k == PeerIDLength + 1 - i IN
         IF c.distance[k] < other.distance[k] THEN TRUE
         ELSE IF c.distance[k] > other.distance[k] THEN FALSE
         ELSE less_LittleEndian(c, other, i + 1)

\* candidate.less, from byte i on
RECURSIVE less(_, _, _)
less(c, other, i) ==
    IF i > PeerIDLength THEN FALSE
    ELSE IF c.distance[i] < other.distance[i] THEN TRUE
    ELSE IF c.distance[i] > other.distance[i] THEN FALSE
    ELSE less(c, other, i + 1)

\* the candidates of the buckets numbered in idxs, in bucket order; the
\* empty buckets add none
RECURSIVE Candidates(_, _, _)
Candidates(t, target, idxs) ==
    IF idxs = {} THEN <<>>
    ELSE LET i == CHOOSE j \in idxs : \A k \in idxs : j <= k IN
         [j \in 1..Len(t.buckets[i]) |->
             [id |-> t.buckets[i][j], distance |-> xorDistance(t.buckets[i][j], target)]]
           \o Candidates(t, target, idxs \ {i})

\* sort.Slice(cands, less); the sort is not stable, which shows only between
\* candidates neither of which is less than the other
RECURSIVE SortSlice(_)
SortSlice(cands) ==
    IF Len(cands) <= 1 THEN {cands}
    ELSE LET firsts == {i \in 1..Len(cands) :
                           \A j \in 1..Len(cands) : ~less(cands[j], cands[i], 1)} IN
         UNION {{<<cands[i]>> \o rest : rest \in SortSlice(RemoveAt(cands, i))} :
                    i \in firsts}

\* KademliaTable.FindClosest: the results the sort allows
FindClosest(t, target, n) ==
    {LET cut == IF Len(cands) > n THEN SubSeq(cands, 1, n) ELSE cands IN
     [i \in 1..Len(cut) |-> cut[i].id] : cands \in SortSlice(Candidates(t, target,
                  {i \in DOMAIN t.buckets : t.buckets[i] # <<>>}))}

\* RouteTable.BindSelf
BindSelf(rt, self) ==
    [rt EXCEPT !.selfID = self,
               !.kad = IF rt.kad = NoKad THEN NewKademliaTable(self) ELSE rt.kad]

\* rt.direct[dest] = via
SetDirect(direct, dest, via) ==
    [d \in DOMAIN direct \cup {dest} |-> IF d = dest THEN via ELSE direct[d]]

\* RouteTable.LearnDirect
LearnDirect(rt, id) ==
    IF id = ZeroID THEN rt
    ELSE [rt EXCEPT !.direct = SetDirect(rt.direct, id, id),
                    !.kad = IF rt.kad = NoKad THEN NoKad ELSE Update(rt.kad, id)]

\* RouteTable.LearnVia
LearnVia(rt, dest, via) ==
    IF dest = ZeroID \/ via = ZeroID THEN rt
    ELSE [rt EXCEPT !.direct = SetDirect(rt.direct, dest, via),
                    !.kad = IF rt.kad = NoKad THEN NoKad ELSE Update(rt.kad, via)]

-----------------------------------------------------------------------------
(* A route table that is bound, taught peers and asked for the closest *)

\* a peer ID with first byte hi and last byte lo, zero between
Peer(hi, lo) == [i \in 1..PeerIDLength |-> IF i = 1 THEN hi ELSE IF i = PeerIDLength THEN lo ELSE 0]

TableSelf == Peer(0, 1)

\* the peers in the order the table meets them: nine of them differ from
\* TableSelf in the first bit and share bucket 0
Arrivals ==
    <<Peer(64, 0), Peer(0, 3), Peer(128, 5), Peer(129, 0), Peer(130, 0), Peer(131, 0),
      Peer(132, 0), Peer(133, 0), Peer(134, 0), Peer(135, 0), Peer(136, 0)>>

\* peers that are named again after they were met
Touched == {Peer(128, 5), ZeroID, TableSelf}
\* relays named in LearnVia
Vias == {Peer(128, 5), ZeroID}

\* the next peer to meet: the first of Arrivals without a static route
Unmet == {i \in 1..Len(Arrivals) : Arrivals[i] \notin DOMAIN routes.direct}
Offered ==
    Touched \cup {Arrivals[i] : i \in {j \in Unmet : \A k \in Unmet : j <= k}}

ViaDests == {IdZ, ZeroID}
Targets == {Peer(128, 0), Peer(0, 2)}
MaxFind == 2

InitTable == InitQuiet /\ last = NoCall

TableFrame ==
    /\ UNCHANGED <<addrBook, revBook, wire, incoming, closed, stratKey, job, delivered, lost>>
    /\ UNCHANGED <<conns, dials, snap, chanCloses, payloadCalls, mu, procs, given, encoded, decoded,
                   node, mesh>>

\* rt.BindSelf(self)
Bind ==
    /\ routes' = BindSelf(routes, TableSelf)
    /\ last' = [kind |-> "bind"]
    /\ TableFrame

\* rt.LearnDirect(id)
LearnDirectCall(id) ==
    /\ routes' = LearnDirect(routes, id)
    /\ last' = [kind |-> "learn", id |-> id, upd |-> (id # ZeroID /\ routes.kad # NoKad)]
    /\ TableFrame

\* rt.LearnVia(dest, via)
LearnViaCall(dest, via) ==
    /\ routes' = LearnVia(routes, dest, via)
    /\ last' = [kind |-> "learn", id |-> via,
                upd |-> (dest # ZeroID /\ via # ZeroID /\ routes.kad # NoKad)]
    /\ TableFrame

\* rt.kad.FindClosest(target, n)
FindClosestCall(target, n) ==
    /\ routes.kad # NoKad
    /\ \E out \in FindClosest(routes.kad, target, n) :
          last' = [kind |-> "find", target |-> target, n |-> n, out |-> out]
    /\ UNCHANGED routes
    /\ TableFrame

NextTable ==
    \/ Bind
    \/ \E id \in Offered : LearnDirectCall(id)
    \/ \E dest \in ViaDests, via \in Vias : LearnViaCall(dest, via)
    \/ \E target \in Targets, n \in 0..MaxFind : FindClosestCall(target, n)

SpecTable == InitTable /\ [][NextTable]_vars

-----------------------------------------------------------------------------
(* One connection into the relay's node: Node.handleConn / handleStream *)

\* streams the node accepts on the connection
MaxStreams == 3

\* the node that listens, and the peer that dialed it
Served == IdR
Dialer == IdA

\* what a peer can write on a stream before closing it: too short for a frame
\* header, shorter than the header says, headers whose length is 65533..65535,
\* frames whose payload is no envelope, and well-formed frames
StreamBytes ==
    {<<>>, <<FrameTypeNormal, 0>>, <<FrameTypeNormal, 0, 5>>,
     <<FrameTypeNormal, 255, 255>>, <<FrameTypeNormal, 255, 253, 0, 0>>,
     FrameBuild(FrameTypeNormal, Rep(0, EnvHeaderSize - 1)),
     FrameBuild(FrameTypeNormal, [i \in 1..EnvHeaderSize |-> IF i = 69 THEN 4 ELSE 0])}
    \cup {FrameBuild(FrameTypeNormal, Marshal(BuilderBuild(1, f, 5, dst, Dialer, Hi))) :
            f \in {0, FlagEncrypted}, dst \in {Served, IdB}}

InitNode == Init /\ stratKey = <<>>

\* stream, err := conn.AcceptUniStream(ctx); go n.handleStream(stream, conn)
AcceptUniStream(data) ==
    /\ node.running[Served]
    /\ node.accepted < MaxStreams
    /\ node' = [node EXCEPT !.accepted = @ + 1]
    /\ wire' = Append(wire, [to |-> ListenAddr(Served), remote |-> DialAddr(Dialer),
                             data |-> data, serial |-> node.accepted + 1])
    /\ last' = [kind |-> "accept", serial |-> node.accepted + 1]
    /\ UNCHANGED <<addrBook, revBook, incoming, closed, stratKey, job, delivered, lost>>
    /\ UNCHANGED <<conns, dials, snap, chanCloses, payloadCalls, mu, procs, given, encoded, decoded,
                   routes, mesh>>

NextNode ==
    \/ \E data \in StreamBytes : AcceptUniStream(data)
    \/ \E i \in DOMAIN wire, k \in Attempts : HandleStream(i, k)

SpecNode == InitNode /\ [][NextNode]_vars

-----------------------------------------------------------------------------
(* Routers joined by arbitrary NextHop tables, one envelope injected *)

\* a uint8 ttl allows no more Send calls than this
MaxSends == 255

\* the table of a router that knows hop as the next hop to dest (ZeroID: none)
TableTo(dest, hop) == IF hop = ZeroID THEN <<>> ELSE (dest :> hop)

\* the router of host h in the mesh: NextHop bound to the table's lookup
MeshRouter(h) == Router(h, TRUE, "table", mesh.nextHop[h], TRUE, TRUE)

InitMesh == InitQuiet /\ last = NoCall

\* every router is given a next hop (or none) for the destination, cycles
\* included, and a single-layer envelope is handed to the first router
Inject ==
    /\ job = NoJob
    /\ \E hop \in [Hosts -> Hosts \cup {ZeroID}], dest \in {IdZ, IdB}, at \in {IdA, IdR},
          f \in {0, FlagRegister}, t \in TTLSet :
          LET env == BuilderBuild(1, f, t, dest, IdA, Hi) IN
          /\ mesh' = [nextHop |-> [h \in Hosts |-> TableTo(dest, hop[h])], sends |-> 0]
          /\ job' = Job("inject", at, dest, Hi, <<>>, env, "ok")
          /\ wire' = <<[to |-> at, env |-> env]>>
    /\ last' = [kind |-> "inject"]
    /\ UNCHANGED <<addrBook, revBook, incoming, closed, stratKey, delivered, lost>>
    /\ UNCHANGED <<conns, dials, snap, chanCloses, payloadCalls, mu, procs, given, encoded, decoded,
                   routes, node>>

\* the router that was sent the envelope runs HandleEnvelope on it; each
\* Send(nextHop, env) hands the envelope to the router of nextHop
Hop ==
    /\ wire # <<>>
    /\ mesh.sends <= MaxSends
    /\ LET s == Head(wire)
           res == HandleEnvelope(MeshRouter(s.to), s.env) IN
       /\ wire' = Tail(wire) \o [j \in DOMAIN res.sends |->
                                    [to |-> res.sends[j].nextHop, env |-> res.sends[j].env]]
       /\ mesh' = [mesh EXCEPT !.sends = @ + Len(res.sends)]
       /\ delivered' = [delivered EXCEPT ![s.to] = @ \o res.payloads]
       /\ last' = [kind |-> "hop", at |-> s.to, act |-> res.layers[1].act]
    /\ UNCHANGED <<addrBook, revBook, incoming, closed, stratKey, job, lost>>
    /\ UNCHANGED <<conns, dials, snap, chanCloses, payloadCalls, mu, procs, given, encoded, decoded,
                   routes, node>>

NextMesh ==
    \/ Inject
    \/ Hop

SpecMesh == InitMesh /\ [][NextMesh]_vars

-----------------------------------------------------------------------------
(* One socket with a key: the router delivers sealed envelopes *)

\* envelopes the router is handed for the socket's host
MaxInbound == 2

\* the key of another sender
OtherKey == Rep(8, 32)

\* business envelopes for BufHost: sealed under the socket's key or under
\* another one, not sealed, and marked sealed with a payload too short to be
\* a nonce
InboundEnvs ==
    {EncryptInner(BuilderBuild(1, FlagRPC, DefaultTTL, BufHost, IdA, p), k, nc).env :
        p \in {Hi, <<1, 2, 3>>}, k \in {Key32, OtherKey}, nc \in Nonces}
      \cup {BuilderBuild(1, f, DefaultTTL, BufHost, IdA, Hi) :
               f \in {0, FlagRPC, FlagRPC + FlagEncrypted}}

InitInbound ==
    /\ InitOthers
    /\ addrBook = [p \in PeerIDs |-> <<>>]
    /\ revBook = <<>>
    /\ wire = <<>>
    /\ incoming = [h \in Hosts |-> <<>>]
    /\ closed = [h \in Hosts |-> FALSE]
    /\ lost = FALSE
    /\ delivered = [h \in Hosts |-> <<>>]
    /\ stratKey = Key32
    /\ job = NoJob
    /\ last = NoCall

\* Router.HandleEnvelope(env) on the host's router, OnPayload bound to the
\* socket's handleBusinessEnvelopeFromRouter
Arrive(h, env) ==
    LET res == HandleEnvelope(HostRouter(h), env) IN
    /\ payloadCalls < MaxInbound
    /\ payloadCalls' = payloadCalls + 1
    /\ incoming' = [incoming EXCEPT ![h] = EnqueueAll(@, closed[h], stratKey, res.payloads)]
    /\ delivered' = [delivered EXCEPT ![h] = @ \o res.payloads]
    /\ last' = [kind |-> "arrive", host |-> h, payloads |-> res.payloads,
                before |-> Len(incoming[h])]
    /\ UNCHANGED <<addrBook, revBook, wire, closed, stratKey, job, lost>>
    /\ UNCHANGED <<conns, dials, snap, chanCloses, mu, procs, given, encoded, decoded, routes, node, mesh>>

NextInbound ==
    \/ \E env \in InboundEnvs : Arrive(BufHost, env)
    \/ Recv(BufHost)

SpecInbound == InitInbound /\ [][NextInbound]_vars

-----------------------------------------------------------------------------
(* One socket, Close and deliveries on concurrent goroutines *)

\* goroutines 1 and 2 call Socket.Close, 3 and 4 are stream goroutines whose
\* router calls OnPayload
Closers == {1, 2}
Deliverers == {3, 4}

Thread(role) == [pc |-> "start", role |-> role]

InitClose ==
    /\ addrBook = [p \in PeerIDs |-> <<>>]
    /\ revBook = <<>>
    /\ wire = <<>>
    /\ incoming = [h \in Hosts |-> <<>>]
    /\ closed = [h \in Hosts |-> FALSE]
    /\ lost = FALSE
    /\ delivered = [h \in Hosts |-> <<>>]
    /\ stratKey = <<>>
    /\ job = NoJob
    /\ last = NoCall
    /\ conns = <<>>
    /\ dials = 0
    /\ snap = NoSnap
    /\ chanCloses = [h \in Hosts |-> 0]
    /\ payloadCalls = 0
    /\ mu = 0
    /\ given = NoCall
    /\ encoded = NoCall
    /\ decoded = NoCall
    /\ routes = NewRouteTable
    /\ node = NodesUp
    /\ mesh = NoMesh
    /\ procs = [g \in Closers \cup Deliverers |->
                   Thread(IF g \in Closers THEN "close" ELSE "deliver")]

CloseFrame ==
    /\ UNCHANGED <<addrBook, revBook, wire, stratKey, job, delivered, lost>>
    /\ UNCHANGED <<conns, dials, snap, payloadCalls, mu, given, encoded, decoded, routes, mesh>>

\* a panic ends the process and every goroutine with it
Alive == node.running[BufHost]

\* some Close call has returned
CloseReturned == \E g \in Closers : procs[g].pc = "done"

\* Close: if s.closed { return nil }
CloseTest(g) ==
    /\ Alive
    /\ procs[g].role = "close" /\ procs[g].pc = "start"
    /\ procs' = [procs EXCEPT ![g].pc = IF closed[BufHost] THEN "done" ELSE "set"]
    /\ last' = [kind |-> "close test", g |-> g]
    /\ UNCHANGED <<incoming, closed, chanCloses, node>>
    /\ CloseFrame

\* Close: s.closed = true
CloseSet(g) ==
    /\ Alive
    /\ procs[g].pc = "set"
    /\ closed' = [closed EXCEPT ![BufHost] = TRUE]
    /\ procs' = [procs EXCEPT ![g].pc = "close"]
    /\ last' = [kind |-> "close set", g |-> g]
    /\ UNCHANGED <<incoming, chanCloses, node>>
    /\ CloseFrame

\* Close: close(s.incoming); return nil.  Closing a closed channel panics.
CloseChan(g) ==
    /\ Alive
    /\ procs[g].pc = "close"
    /\ chanCloses' = [chanCloses EXCEPT ![BufHost] = @ + 1]
    /\ IF chanCloses[BufHost] > 0
       THEN /\ node' = [node EXCEPT !.running[BufHost] = FALSE]
            /\ last' = [kind |-> "panic", g |-> g, why |-> "close of closed channel"]
            /\ UNCHANGED procs
       ELSE /\ procs' = [procs EXCEPT ![g].pc = "done"]
            /\ last' = [kind |-> "closed", g |-> g]
            /\ UNCHANGED node
    /\ UNCHANGED <<incoming, closed>>
    /\ CloseFrame

\* handleBusinessEnvelopeFromRouter: if s.closed { return }
DeliverTest(g) ==
    /\ Alive
    /\ procs[g].role = "deliver" /\ procs[g].pc = "start"
    /\ procs' = [procs EXCEPT ![g].pc = IF closed[BufHost] THEN "done" ELSE "send"]
    /\ last' = [kind |-> "deliver test", g |-> g]
    /\ UNCHANGED <<incoming, closed, chanCloses, node>>
    /\ CloseFrame

\* handleBusinessEnvelopeFromRouter: HandleIncoming, msg := ..., select
\* { case s.incoming <- msg: default: }.  A send on a closed channel panics.
DeliverSend(g) ==
    /\ Alive
    /\ procs[g].pc = "send"
    /\ IF chanCloses[BufHost] > 0
       THEN /\ node' = [node EXCEPT !.running[BufHost] = FALSE]
            /\ last' = [kind |-> "panic", g |-> g, why |-> "send on closed channel"]
            /\ UNCHANGED <<incoming, procs>>
       ELSE /\ incoming' = [incoming EXCEPT ![BufHost] =
                   HandleBusinessEnvelopeFromRouter(@, FALSE, stratKey, Numbered(g))]
            /\ procs' = [procs EXCEPT ![g].pc = "done"]
            /\ last' = [kind |-> "enqueued", g |-> g, afterClose |-> CloseReturned]
            /\ UNCHANGED node
    /\ UNCHANGED <<closed, chanCloses>>
    /\ CloseFrame

NextClose ==
    \/ \E g \in Closers : CloseTest(g) \/ CloseSet(g) \/ CloseChan(g)
    \/ \E g \in Deliverers : DeliverTest(g) \/ DeliverSend(g)

SpecClose == InitClose /\ [][NextClose]_vars

-----------------------------------------------------------------------------
(* Claims about one Router.HandleEnvelope call (SpecRouter) *)

\* bit test: flags & bit != 0
HasFlag(flags, bit) == (flags \div bit) % 2 = 1

Returned == last.kind = "router"
Sends == last.res.sends
Payloads == last.res.payloads
Layers == last.res.layers

\* C1: an envelope whose REGISTER bit (0x80) is set never reaches Send; the
\* call invokes at most OnRegister(return_peer_id) and stops.
C1_RegisterNeverForwarded ==
    (Returned /\ HasFlag(last.env.Flags, FlagRegister))
        => /\ Sends = <<>>
           /\ Payloads = <<>>
           /\ Len(Layers) = 1
           /\ last.res.regs \in {<<>>, <<last.env.ReturnPeerID>>}

\* C2: an envelope layer whose dest is the router's own id is never passed to
\* Send and keeps its TTL; whatever is passed to Send has another dest.
C2_SelfDestNeverForwarded ==
    Returned =>
        /\ \A i \in DOMAIN Layers :
              Layers[i].before.DestPeerID = last.r.SelfID
                 => /\ Layers[i].act # "forward"
                    /\ Layers[i].after.TTL = Layers[i].before.TTL
                    /\ \A j \in DOMAIN Sends : Sends[j].env # Layers[i].before
        /\ \A j \in DOMAIN Sends : Sends[j].env.DestPeerID # last.r.SelfID

\* the outer envelope is for the router itself and a nested one was forwarded
C2_Witness ==
    /\ Returned
    /\ last.env.DestPeerID = last.r.SelfID
    /\ Len(Layers) > 1
    /\ Len(Sends) = 1

\* C3: every envelope passed to Send carries a ttl exactly one less than the
\* ttl of the layer as it was received, and never below 0.
C3_ForwardDecrementsTTL ==
    Returned =>
        /\ \A i \in DOMAIN Layers :
              Layers[i].act = "forward"
                 => /\ Layers[i].after.TTL = Layers[i].before.TTL - 1
                    /\ Layers[i].after.TTL >= 0
                    /\ \E j \in DOMAIN Sends : Sends[j].env = Layers[i].after
        /\ \A j \in DOMAIN Sends :
              \E i \in DOMAIN Layers :
                 Layers[i].act = "forward" /\ Sends[j].env = Layers[i].after

\* a relay received ttl = 5 and forwarded ttl = 4
C3_Witness ==
    /\ Returned
    /\ last.env.TTL = 5
    /\ Len(Sends) = 1
    /\ Sends[1].env.TTL = 4
    /\ Sends[1].nextHop = IdB

\* C4: Send is never called with an envelope whose ttl is 0.
C4_NeverSendsTTLZero ==
    Returned => \A j \in DOMAIN Sends : Sends[j].env.TTL # 0

\* C6: one top-level call invokes Send at most once, OnPayload at most once,
\* and never both.
C6_AtMostOneSendOrPayload ==
    Returned =>
        /\ Len(Sends) <= 1
        /\ Len(Payloads) <= 1
        /\ Len(Sends) + Len(Payloads) <= 1

\* a call that unwrapped nested layers and forwarded the innermost
C6_Witness ==
    /\ Returned
    /\ Len(Layers) > 2
    /\ Len(Sends) = 1
    /\ Payloads = <<>>

\* the envelope has an inner payload that Unmarshal accepts
InnerParses(e) ==
    e.InnerLen # 0 /\ Len(e.InnerPayload) # 0 /\ Unmarshal(e.InnerPayload).ok

\* C26: a non-REGISTER envelope arriving with ttl = 0, whatever its dest, is
\* dropped: no Send, no OnPayload and no unwrap of its inner payload, also
\* when dest is the router itself.
C26_TTLZeroDropped ==
    Returned =>
        \A i \in DOMAIN Layers :
           (~HasFlag(Layers[i].before.Flags, FlagRegister) /\ Layers[i].before.TTL = 0)
              => /\ i = Len(Layers)
                 /\ Layers[i].act \notin {"forward", "unwrap", "payload"}
                 /\ Layers[i].after = Layers[i].before
                 /\ Sends = <<>>
                 /\ Payloads = <<>>

\* ttl = 0, addressed to the router itself, holding a nested envelope
C26_Witness ==
    /\ Returned
    /\ last.env.TTL = 0 /\ last.env.Flags = 0
    /\ last.env.DestPeerID = last.r.SelfID
    /\ InnerParses(last.env)
    /\ last.r.OnPayload /\ last.r.Send
    /\ Layers[1].act = "ttl expired"

\* C27: an envelope whose dest is not the router and for which NextHop gives
\* no next hop, or NextHop or Send is not bound, is dropped: no Send, no
\* OnPayload, and its ttl stays as it was.
C27_NoNextHopDropped ==
    Returned =>
        \A i \in DOMAIN Layers :
           (/\ Layers[i].before.DestPeerID # last.r.SelfID
            /\ \/ last.r.NextHop = "nil"
               \/ ~last.r.Send
               \/ ~NextHop(last.r, Layers[i].before.DestPeerID).ok)
              => /\ i = Len(Layers)
                 /\ Layers[i].act \notin {"forward", "unwrap", "payload"}
                 /\ Layers[i].after.TTL = Layers[i].before.TTL
                 /\ Sends = <<>>
                 /\ Payloads = <<>>

\* the route table has no entry for the dest; Send and OnPayload are bound
C27_Witness ==
    /\ Returned
    /\ last.r.NextHop = "table" /\ last.r.Send /\ last.r.OnPayload
    /\ last.env.DestPeerID = IdZ
    /\ last.env.TTL = 5 /\ last.env.Flags = 0
    /\ Layers[1].act = "no next hop"
    /\ Layers[1].after.TTL = 5

\* C28: an envelope addressed to the router (not REGISTER, ttl not 0) whose
\* inner payload parses as an envelope is unwrapped: HandleEnvelope is entered
\* again with the inner envelope, whose ttl is the one encoded in its header,
\* the outer ttl is not decremented and OnPayload is not called for the outer.
C28_UnwrapKeepsTTL ==
    Returned =>
        \A i \in DOMAIN Layers :
           (/\ ~HasFlag(Layers[i].before.Flags, FlagRegister)
            /\ Layers[i].before.TTL # 0
            /\ Layers[i].before.DestPeerID = last.r.SelfID
            /\ InnerParses(Layers[i].before))
              => /\ i < Len(Layers)
                 /\ Layers[i].act = "unwrap"
                 /\ Layers[i].after = Layers[i].before
                 /\ Layers[i + 1].before = Unmarshal(Layers[i].before.InnerPayload).env
                 /\ Layers[i + 1].before.TTL = Layers[i].before.InnerPayload[3]
                 /\ \A j \in DOMAIN Payloads : Payloads[j] # Layers[i].before

\* the bytes of an envelope on the wire
TotalLength(e) == Len(Marshal(e))

\* C29: HandleEnvelope returns for every envelope; each unwrap hands on an
\* inner envelope at least 72 bytes shorter than the one it came in, so the
\* number of unwraps is at most floor(length of the envelope / 72).
C29_UnwrapDepthBounded ==
    /\ last.kind = "call" => ENABLED RouterHandle
    /\ Returned =>
          /\ \A i \in 1..(Len(Layers) - 1) :
                /\ Layers[i].act = "unwrap"
                /\ TotalLength(Layers[i + 1].before)
                      <= TotalLength(Layers[i].before) - EnvHeaderSize
          /\ Len(Layers) - 1 <= TotalLength(last.env) \div EnvHeaderSize

\* two unwraps: an envelope holding an envelope holding an envelope
C29_Witness ==
    /\ Returned
    /\ Len(Layers) = 3
    /\ TotalLength(last.env) >= 3 * EnvHeaderSize
    /\ TotalLength(Layers[3].before) = TotalLength(last.env) - 2 * EnvHeaderSize

\* the fields of an envelope other than ttl (and the reserved bytes)
SameButTTL(a, b) ==
    /\ a.Version = b.Version /\ a.Flags = b.Flags
    /\ a.DestPeerID = b.DestPeerID /\ a.ReturnPeerID = b.ReturnPeerID
    /\ a.InnerLen = b.InnerLen /\ a.InnerPayload = b.InnerPayload

\* C35: when HandleEnvelope forwards an envelope, the envelope passed to Send
\* equals the one received (at that layer) in version, flags, dest_peer_id,
\* return_peer_id, inner_len and inner_payload; only ttl differs.
C35_ForwardKeepsFields ==
    Returned =>
        /\ \A i \in DOMAIN Layers :
              Layers[i].act = "forward"
                 => \E j \in DOMAIN Sends :
                       /\ Sends[j].env = Layers[i].after
                       /\ SameButTTL(Sends[j].env, Layers[i].before)
        /\ \A j \in DOMAIN Sends :
              \E i \in DOMAIN Layers :
                 /\ Layers[i].act = "forward"
                 /\ SameButTTL(Sends[j].env, Layers[i].before)
        /\ (Len(Layers) = 1 /\ Len(Sends) = 1) => SameButTTL(Sends[1].env, last.env)

\* a relay forwarded an envelope with flags and a payload: the payload and
\* the flags went out as they came in, with another ttl
C35_Witness ==
    /\ Returned
    /\ Len(Layers) = 1 /\ Len(Sends) = 1
    /\ last.env.Flags # 0 /\ last.env.InnerPayload # <<>>
    /\ last.env.ReturnPeerID # last.r.SelfID
    /\ Sends[1].env.InnerPayload = last.env.InnerPayload
    /\ Sends[1].env.Flags = last.env.Flags
    /\ Sends[1].env.TTL # last.env.TTL

-----------------------------------------------------------------------------
(* Claims about the network (Spec) *)

\* the application has sent, every stream was read and no send failed
Settled == job.kind # "none" /\ job.result = "ok" /\ wire = <<>> /\ ~lost

\* the last stream was handed to the router of the host h
RoutedAt(h) == last.kind = "stream" /\ last.node = h /\ last.dispatch = "router"

\* C5: an envelope with dest = Bob and ttl = 1 that Alice writes to Relay is
\* never delivered at Bob: no OnPayload call and no IncomingMessage there.
C5_TTL1NotDeliveredAtBob ==
    (/\ job.kind = "raw" /\ job.from = IdA /\ job.to = IdR
     /\ job.env.DestPeerID = IdB /\ job.env.TTL = 1)
        => delivered[IdB] = <<>> /\ incoming[IdB] = <<>>

\* Relay forwarded the ttl = 1 envelope and Bob's router dropped it at ttl = 0
C5_Witness ==
    /\ job.kind = "raw" /\ job.from = IdA /\ job.to = IdR
    /\ job.env.DestPeerID = IdB /\ job.env.TTL = 1
    /\ RoutedAt(IdB)
    /\ last.env.TTL = 0
    /\ last.res.layers[1].act = "ttl expired"
    /\ wire = <<>>

\* C7: an onion built for the relay path and final destination D, carried by a
\* network that loses nothing, ends in exactly one OnPayload at D with the
\* original payload and sender, and in none at any other host (stated for
\* non-empty payloads).
C7_OnionDeliveredOnceAtDest ==
    (job.kind = "onion" /\ job.payload # <<>> /\ Settled)
        => /\ Len(delivered[job.to]) = 1
           /\ delivered[job.to][1].InnerPayload = job.payload
           /\ delivered[job.to][1].ReturnPeerID = job.from
           /\ Len(incoming[job.to]) = 1
           /\ incoming[job.to][1].Payload = job.payload
           /\ incoming[job.to][1].From = job.from
           /\ \A h \in Hosts \ {job.to} : delivered[h] = <<>>

\* C8: a non-empty payload sent by Socket.Send under a shared valid key
\* arrives with ENCRYPTED set, is handed to the router as a normal envelope
\* and ends as exactly one IncomingMessage with the plaintext and the sender.
C8_EncryptedSimpleDelivered ==
    (/\ job.kind = "socket" /\ ValidKey(stratKey) /\ job.payload # <<>>
     /\ job.to \in Hosts /\ job.to # job.from)
        => /\ (last.kind = "stream" /\ last.node = job.to)
                 => /\ last.dispatch = "router"
                    /\ HasFlag(last.env.Flags, FlagEncrypted)
                    /\ last.res.layers[1].act = "payload"
           /\ Settled
                 => /\ Len(incoming[job.to]) = 1
                    /\ incoming[job.to][1].Payload = job.payload
                    /\ incoming[job.to][1].From = job.from

\* C9: Send(self, p) under the default strategy ends in exactly one
\* IncomingMessage{from = self, payload = p} on the host's own socket (stated
\* for non-empty p and a transport that loses nothing).
C9_SelfSendYieldsOneMessage ==
    (/\ job.kind = "socket" /\ job.to = job.from /\ stratKey = <<>>
     /\ job.payload # <<>>)
        => /\ Len(incoming[job.from]) <= 1
           /\ Settled
                 => /\ Len(incoming[job.from]) = 1
                    /\ incoming[job.from][1].Payload = job.payload
                    /\ incoming[job.from][1].From = job.from

\* C10: a single-layer unencrypted envelope that reaches the host named in its
\* dest is handed to OnPayload exactly once, its inner payload being the
\* sender's non-empty application payload.
C10_SingleLayerHandedToOnPayload ==
    (/\ job.kind = "socket" /\ stratKey = <<>> /\ job.payload # <<>>
     /\ RoutedAt(job.to) /\ last.env.DestPeerID = job.to)
        => /\ last.res.payloads = <<last.env>>
           /\ last.env.InnerPayload = job.payload
           /\ Len(last.res.layers) = 1

\* C11: a Socket.Send whose envelope could be written to no address of the
\* next hop (the peer has no address, or every address failed) returns an
\* error to the caller.
C11_SendFailureSurfaced ==
    (job.kind = "socket" /\ last = NoCall /\ lost) => job.result # "ok"


-----------------------------------------------------------------------------
(* Claims about the sockets (SpecSocket) *)

\* a Socket.Send was issued in this step
SendIssued == job = NoJob /\ job' # NoJob /\ job'.kind = "socket"

\* C12: however many times Close is called, the incoming channel of a socket
\* is closed exactly once and every Close returns no error; a Send issued
\* after Close returns an error, builds no envelope and writes no stream.
C12_CloseIdempotent ==
    [][/\ \A h \in Hosts : /\ chanCloses'[h] <= 1
                           /\ closed'[h] <=> chanCloses'[h] = 1
                           /\ closed[h] => closed'[h]
       /\ last'.kind = "close" => last'.err = "nil" /\ closed'[last'.host]
       /\ (SendIssued /\ closed[job'.from])
             => /\ job'.result # "ok"
                /\ job'.env = <<>>
                /\ wire' = wire
                /\ lost' = lost]_vars

\* Close, a Send that failed, and Close again
C12_Witness ==
    /\ last.kind = "close" /\ last.wasClosed
    /\ job.kind = "socket" /\ job.from = last.host
    /\ job.result = "socket already closed"
    /\ chanCloses[last.host] = 1


-----------------------------------------------------------------------------
(* Claims about the loaded socket (SpecBuffer) *)

\* the number a queued message carries
Number(msg) == msg.Payload[1] * 256 + msg.Payload[2]

\* the IncomingMessage made of a business envelope
MessageOf(env) == [From |-> env.ReturnPeerID, Payload |-> env.InnerPayload, Env |-> env]

\* C13: the incoming buffer never holds more than 128 messages; a delivery to
\* a full buffer is dropped and leaves the queued messages as they are, a
\* delivery to an open socket with room is appended, the queue stays in
\* arrival order, and a delivery is always possible (it never waits for room).
C13_BufferBoundedAndDrops ==
    [][/\ Len(incoming'[BufHost]) <= IncomingCap
       /\ \A i, j \in DOMAIN incoming'[BufHost] :
             i < j => Number(incoming'[BufHost][i]) < Number(incoming'[BufHost][j])
       /\ payloadCalls' # payloadCalls =>
             /\ Len(incoming[BufHost]) = IncomingCap
                   => incoming'[BufHost] = incoming[BufHost]
             /\ (Len(incoming[BufHost]) < IncomingCap /\ ~closed[BufHost])
                   => incoming'[BufHost] =
                         Append(incoming[BufHost], MessageOf(Numbered(payloadCalls)))
       /\ payloadCalls < MaxDeliveries => ENABLED OnPayload(BufHost)]_vars

\* the buffer is full again after the application received, and the last
\* delivery was dropped
C13_Witness ==
    /\ last.kind = "onpayload" /\ last.dropped
    /\ Len(incoming[BufHost]) = IncomingCap
    /\ Number(incoming[BufHost][1]) > 0


-----------------------------------------------------------------------------
(* Claims about the node's dispatch (Spec) *)

\* C14: for an inbound envelope whose REGISTER bit (0x80) is set the node
\* calls OnRegisterPeer(return_peer_id, remote address), which registers the
\* pair, and stops: the envelope is not handed to Router.HandleEnvelope.
C14_RegisterDispatchedAndStops ==
    (/\ last.kind = "stream"
     /\ last.dispatch \in {"register", "router"}
     /\ HasFlag(last.env.Flags, FlagRegister))
        => /\ last.dispatch = "register"
           /\ PeerByAddr(Reg, last.stream.remote).id = last.env.ReturnPeerID


-----------------------------------------------------------------------------
(* Claims about the registry (SpecRegistry) *)

\* this step is a registration of addr, by either call
Registers(addr) ==
    /\ last'.kind \in {"RegisterStatic", "RegisterPeer"}
    /\ last'.addr = addr

\* C15: right after RegisterPeer(id, addr) the reverse lookup of addr gives id
\* and addr is in Resolve(id), whoever held addr before; both stay so through
\* every step that does not register addr again.
C15_ReverseConsistency ==
    [][/\ last'.kind = "RegisterPeer"
             => /\ PeerByAddr(Reg', last'.addr) = [ok |-> TRUE, id |-> last'.id]
                /\ Contains(Resolver(Reg', last'.id), last'.addr)
       /\ \A addr \in RegAddrs :
             ~Registers(addr)
                => /\ PeerByAddr(Reg', addr) = PeerByAddr(Reg, addr)
                   /\ \A id \in RegIds :
                         Contains(Resolver(Reg, id), addr)
                            => Contains(Resolver(Reg', id), addr)]_vars

\* RegisterPeer took an address over from the peer that held it
C15_Witness ==
    /\ last.kind = "RegisterPeer"
    /\ PeerByAddr(Reg, last.addr).id = last.id
    /\ \E id \in RegIds \ {last.id} : Contains(Resolver(Reg, id), last.addr)


\* C16: whatever RegisterStatic and RegisterPeer calls were made, no peer's
\* Resolve list holds the same address twice.
C16_NoDuplicateAddresses ==
    \A id \in RegIds :
        \A i, j \in DOMAIN Resolver(Reg, id) :
            i # j => Resolver(Reg, id)[i] # Resolver(Reg, id)[j]

\* C17: Resolve(id) hands out the forward list as it stands, in registration
\* order (a registration leaves a list alone or appends to it); a list handed
\* out is not changed by later registrations, and a caller's write to it does
\* not change what Resolve returns afterwards.
C17_ResolveReturnsSnapshot ==
    [][/\ last'.kind = "Resolver"
             => snap'.list = Book(Reg, last'.id) /\ snap'.id = last'.id
       /\ last'.kind \in {"RegisterStatic", "RegisterPeer"}
             => /\ snap' = snap
                /\ \A id \in RegIds :
                      \/ Resolver(Reg', id) = Resolver(Reg, id)
                      \/ /\ id = last'.id
                         /\ Resolver(Reg', id) = Append(Resolver(Reg, id), last'.addr)
       /\ last'.kind = "scribble"
             => \A id \in RegIds : Resolver(Reg', id) = Resolver(Reg, id)]_vars

\* the caller wrote to the list it holds, and a later registration extended
\* the registry's list: the two differ in both ways
C17_Witness ==
    /\ snap.held
    /\ snap.list # <<>>
    /\ snap.list[1] = "0.0.0.0:0"
    /\ Resolver(Reg, snap.id)[1] # "0.0.0.0:0"
    /\ Len(Resolver(Reg, snap.id)) > Len(snap.list)
    /\ last.kind \in {"RegisterStatic", "RegisterPeer"}


\* C40: after any sequence of RegisterStatic and RegisterPeer calls the two
\* maps agree: for every id and every addr in Resolve(id), PeerByAddr(addr)
\* returns id, so an address registered again for another peer is no longer in
\* the previous peer's list.
C40_MapsAgree ==
    \A id \in RegIds :
        LET addrs == Resolver(Reg, id) IN
        \A i \in DOMAIN addrs : PeerByAddr(Reg, addrs[i]) = [ok |-> TRUE, id |-> id]

-----------------------------------------------------------------------------
(* Claims about the peer manager (SpecPeer) *)

Sent == last.kind = "send"
Tried == last.tried

\* C18: SendToPeer for a peer whose resolved list is empty fails with the
\* no-route error ("no address for peer"); it makes no attempt (no dial, no
\* stream, nothing written) and leaves pool and dial count as they were.
C18_NoAddressNoRoute ==
    (Sent /\ last.addrs = <<>>)
        => /\ ~last.ok
           /\ last.err.step = "no address for peer"
           /\ Tried = <<>>
           /\ last.written = <<>>
           /\ conns = last.before.conns
           /\ dials = last.before.dials

\* a call for the peer without address, made when the pool held a connection
C18_Witness ==
    /\ Sent /\ last.addrs = <<>>
    /\ conns # <<>>
    /\ dials > 0


\* the first address at which the transport lets every step succeed, 0 if none
FirstOk(outs) ==
    IF \E i \in DOMAIN outs : outs[i] = "ok"
    THEN CHOOSE i \in DOMAIN outs :
            outs[i] = "ok" /\ \A j \in 1..(i - 1) : outs[j] # "ok"
    ELSE 0

\* C19: SendToPeer tries the addresses in resolved order; it returns success
\* at the first address where connect, open, write and close all succeed and
\* contacts none after it; when every address fails it has tried them all and
\* returns the error of the last one.
C19_FallbackInOrder ==
    (Sent /\ last.addrs # <<>>)
        => LET n == Len(Tried) IN
           /\ 1 <= n /\ n <= Len(last.addrs)
           /\ \A j \in 1..n : Tried[j].addr = last.addrs[j]
           /\ \A j \in 1..(n - 1) : Tried[j].out # "ok"
           /\ last.ok <=> Tried[n].out = "ok"
           /\ last.ok => /\ n = FirstOk(last.outs)
                         /\ last.err = NoErr
                         /\ last.written # <<>>
           /\ ~last.ok => /\ FirstOk(last.outs) = 0
                          /\ n = Len(last.addrs)
                          /\ last.err = [step |-> Tried[n].out, addr |-> last.addrs[n]]
                          /\ last.written = <<>>

\* two different addresses failed at different steps
C19_Witness ==
    /\ Sent /\ ~last.ok
    /\ Len(Tried) = 2
    /\ Tried[1].addr # Tried[2].addr
    /\ Tried[1].out = "write" /\ Tried[2].out = "dial"

\* C20: an attempt reuses the pooled connection exactly when its context is
\* healthy at the lookup and dials otherwise; no connection whose context is
\* done carries a send, a fresh one takes its place in the pool; and of two
\* consecutive calls that succeed on the same address the second does not
\* dial it, so the pair dials it once at most.
C20_ConnectionReuse ==
    Sent =>
        /\ \A j \in DOMAIN Tried :
              /\ Tried[j].dialed <=> Tried[j].pooled # "healthy"
              /\ Tried[j].pooled = "healthy"
                    => \/ /\ Tried[j].addr \in DOMAIN last.before.conns
                          /\ Tried[j].conn = last.before.conns[Tried[j].addr]
                       \/ Tried[j].conn.serial > last.before.dials
              /\ Tried[j].out # "dial"
                    => /\ Healthy(Tried[j].conn)
                       /\ Tried[j].dialed
                             => /\ Tried[j].conn.serial > last.before.dials
                                /\ conns[Tried[j].addr] = Tried[j].conn
        /\ (/\ last.prev.kind = "send" /\ last.prev.ok /\ last.ok
            /\ last.prev.at.addr = Tried[Len(Tried)].addr)
              => /\ Tried[Len(Tried)].conn = last.prev.at.conn
                 /\ \A j \in DOMAIN Tried :
                       Tried[j].addr = last.prev.at.addr => ~Tried[j].dialed

\* the first call dialed the address, the second reused the connection
C20_Witness ==
    /\ Sent /\ last.ok
    /\ last.prev.kind = "send" /\ last.prev.ok
    /\ last.prev.at.addr = Tried[Len(Tried)].addr
    /\ last.prev.at.dialed
    /\ ~Tried[Len(Tried)].dialed
    /\ dials = 1


\* the positions of the operations op in a stream's history
OpsAt(ops, op) == {k \in DOMAIN ops : ops[k].op = op}

\* C30: SendToPeer returns success only after, on a stream it has just
\* opened, exactly one NORMAL frame holding the marshaled envelope was written
\* and the write side was then closed; no stream carries more than one frame.
C30_OneFramePerStream ==
    Sent =>
        LET raw == FrameBuild(FrameTypeNormal, Marshal(last.env)) IN
        /\ \A j \in DOMAIN Tried :
              LET ops == Tried[j].ops IN
              /\ Cardinality(OpsAt(ops, "write")) <= 1
              /\ ops # <<>> => OpsAt(ops, "open") = {1}
              /\ \A k \in OpsAt(ops, "write") : ops[k].data = raw
              /\ \A k \in OpsAt(ops, "close") : k = Len(ops)
        /\ last.ok
              => /\ Tried[Len(Tried)].ops
                      = <<[op |-> "open"], [op |-> "write", ok |-> TRUE, data |-> raw],
                          [op |-> "close", ok |-> TRUE]>>
                 /\ FrameDecode(raw)
                      = [ok |-> TRUE, t |-> FrameTypeNormal, payload |-> Marshal(last.env)]

\* the frame went out on a first stream whose Close failed, then again on a
\* fresh stream to the next address, where the call succeeded
C30_Witness ==
    /\ Sent /\ last.ok
    /\ Len(Tried) = 2
    /\ Tried[1].out = "close"
    /\ Len(Tried[1].ops) = 3
    /\ Len(Tried[2].ops) = 3

\* the attempts of the call whose frame write succeeded
Written == {j \in DOMAIN Tried : \E k \in OpsAt(Tried[j].ops, "write") : Tried[j].ops[k].ok}

\* C39: within one SendToPeer call the frame is written to at most one
\* address: after a write has succeeded on one address no later address of
\* the list is written to, whatever fails afterwards.
C39_WrittenToOneAddress ==
    Sent => Cardinality(Written) <= 1

-----------------------------------------------------------------------------
(* Claims about concurrent getConn calls (SpecDial) *)

\* C21: when two concurrent senders found no usable pooled connection for the
\* same address and both dialed successfully, the pool keeps the connection
\* inserted first after both have returned; and no dial runs while the
\* dialing goroutine holds the pool mutex.
C21_EarlierEntryKept ==
    /\ last.kind = "dial" => ~last.locked
    /\ \A g, h \in DOMAIN procs :
          (/\ procs[g].pc = "return" /\ procs[h].pc = "return"
           /\ procs[g].addr = procs[h].addr
           /\ procs[g].ins > 0 /\ procs[h].ins > procs[g].ins)
              => conns[procs[g].addr] = procs[g].conn


-----------------------------------------------------------------------------
(* Claims about the codecs (SpecCodec) *)

C23_FrameRoundTrip ==
    last.kind = "frame done" => last.ok /\ decoded = given

\* C24: for an envelope with a non-empty inner payload and a valid key,
\* EncryptInner sets ENCRYPTED and inner_len = len(nonce + ciphertext), and
\* DecryptInner with the same key restores inner payload and inner_len and
\* clears ENCRYPTED, every other field and flag bit staying as it was.
C24_CryptoRoundTrip ==
    /\ last.kind = "sealed"
          => /\ last.ok
             /\ HasFlag(encoded.Flags, FlagEncrypted)
             /\ Len(encoded.InnerPayload) = NonceSize + Len(given.InnerPayload) + TagSize
             /\ encoded.InnerLen = Len(encoded.InnerPayload)
             /\ encoded = [given EXCEPT !.Flags = SetFlag(@, FlagEncrypted),
                                        !.InnerLen = encoded.InnerLen,
                                        !.InnerPayload = encoded.InnerPayload]
    /\ last.kind = "opened"
          => /\ last.ok
             /\ decoded = [given EXCEPT !.Flags = ClearFlag(@, FlagEncrypted)]



\* C32: frame.Decode returns the error "frame too short" for every input of
\* fewer than 3 bytes and the error "frame length mismatch" for every input
\* of fewer than 3 + length bytes, for every length field 0..65535; for every
\* other input it returns the type byte and exactly the `length` bytes that
\* follow the header.  It ends in no other way.
C32_DecodeTotal ==
    last.kind = "decode done"
        => LET n == Len(encoded) IN
           IF n < FrameHeaderSize
           THEN ~last.ok /\ last.err = "frame too short"
           ELSE LET length == encoded[2] * 256 + encoded[3] IN
                IF n < FrameHeaderSize + length
                THEN ~last.ok /\ last.err = "frame length mismatch"
                ELSE /\ last.ok
                     /\ decoded = [t |-> encoded[1],
                                   payload |-> SubSeq(encoded, FrameHeaderSize + 1,
                                                      FrameHeaderSize + length)]

\* in the marshaled envelope b the inner_len field equals the number of bytes
\* after the header, and so for the d layers nested in it
RECURSIVE LayersAgree(_, _)
LayersAgree(b, d) ==
    /\ b[68] * 256 + b[69] = Len(b) - EnvHeaderSize
    /\ d > 0 => LayersAgree(SubSeq(b, EnvHeaderSize + 1, Len(b)), d - 1)

\* C34: every envelope layer produced by Builder.Payload,
\* SimpleStrategy.BuildOutgoing (EncryptInner with a key) or
\* OnionStrategy.BuildEnvelope has, when it is marshaled, inner_len equal to
\* the byte length of its inner_payload, for every payload length and number
\* of onion layers; and the length field of the frame built from it equals
\* the number of bytes written after the frame header.
C34_LengthsDescribeBytes ==
    last.kind = "built"
        => /\ LayersAgree(encoded, last.depth)
           /\ last.header[2] * 256 + last.header[3] = last.written - FrameHeaderSize

-----------------------------------------------------------------------------
(* Claims about the route table (SpecTable) *)

\* x < y as big-endian numbers of PeerIDLength bytes
Below(x, y) ==
    \E i \in 1..PeerIDLength : x[i] < y[i] /\ \A j \in 1..(i - 1) : x[j] = y[j]

\* the peers the k-buckets hold: learned and not evicted
KnownPeers ==
    IF routes.kad = NoKad THEN {}
    ELSE UNION {{routes.kad.buckets[i][j] : j \in 1..Len(routes.kad.buckets[i])} :
                   i \in {k \in DOMAIN routes.kad.buckets : routes.kad.buckets[k] # <<>>}}

-----------------------------------------------------------------------------
(* Claims about the node's ingress (SpecNode) *)

\* frame.Decode or envelop.Unmarshal does not yield an envelope for these bytes
CodecFails(data) ==
    LET f == FrameDecode(data) IN
    ~f.ok \/ ~Unmarshal(f.payload).ok

\* C31: a stream whose bytes fail frame decoding or envelope unmarshaling is
\* dropped: handling it registers nothing, hands nothing to the router (no
\* delivery, no stream written), and leaves the node running, so that the
\* streams accepted afterwards are still handled.
C31_BadStreamDropped ==
    [][(last'.kind = "stream" /\ last' # last /\ CodecFails(last'.stream.data))
        => /\ addrBook' = addrBook /\ revBook' = revBook
           /\ incoming' = incoming /\ delivered' = delivered
           /\ Len(wire') = Len(wire) - 1
           /\ node'.running[last'.node]]_vars

-----------------------------------------------------------------------------
(* Claims about the k-buckets (SpecTable) *)

\* index 0..255 of the first bit, from the most significant bit of the first
\* byte, in which a and b differ (a # b)
FirstDifferingBit(a, b) ==
    LET i == CHOOSE j \in 1..PeerIDLength :
                 a[j] # b[j] /\ \A k \in 1..(j - 1) : a[k] = b[k]
        bit == CHOOSE k \in 0..7 :
                 /\ a[i] \div (2 ^ (7 - k)) # b[i] \div (2 ^ (7 - k))
                 /\ \A m \in 0..(k - 1) : a[i] \div (2 ^ (7 - m)) = b[i] \div (2 ^ (7 - m))
    IN (i - 1) * 8 + bit

\* every bucket holds at most 8 peers, all distinct, none of them self, each
\* in the bucket of its first differing bit
BucketsShaped(t) ==
    \A idx \in DOMAIN t.buckets :
        LET b == t.buckets[idx] IN
        /\ Len(b) <= 8
        /\ \A i, j \in 1..Len(b) : b[i] = b[j] => i = j
        /\ \A i \in 1..Len(b) : b[i] # t.selfID /\ FirstDifferingBit(t.selfID, b[i]) = idx

\* bucket b after id was updated: id last (most recent), the others in their
\* old order, the first (least recently updated) gone if b was full without id
Touch(b, id) ==
    LET others_ == SelectSeq(b, LAMBDA p : p # id) IN
    IF Len(others_) < Len(b) \/ Len(b) < 8 THEN Append(others_, id)
    ELSE Append(Tail(b), id)

\* C33: after any sequence of LearnDirect / LearnVia calls every k-bucket
\* holds at most 8 distinct peers, none equal to self, each in the bucket of
\* its first differing bit from self; an Update of a peer already present
\* moves it to the most-recent end, an Update of a new peer appends it, after
\* dropping the least recently updated peer when the bucket is full; no other
\* bucket changes, and an Update of self changes nothing.
C33_BucketsLRU ==
    [][/\ routes'.kad # NoKad => BucketsShaped(routes'.kad)
       /\ (last'.kind = "learn" /\ last'.upd)
            => LET t == routes.kad
                   id == last'.id IN
               IF id = t.selfID THEN routes'.kad = t
               ELSE LET idx == FirstDifferingBit(t.selfID, id) IN
                    routes'.kad = [t EXCEPT !.buckets[idx] = Touch(t.buckets[idx], id)]]_vars

\* a ninth peer was learned into bucket 0: the bucket is full and the peer
\* that had been updated least recently is no longer in it
C33_Witness ==
    /\ last.kind = "learn" /\ last.upd
    /\ routes.kad # NoKad
    /\ Len(routes.kad.buckets[0]) = kBucketSize
    /\ Peer(129, 0) \in DOMAIN routes.direct
    /\ \A i \in 1..kBucketSize : routes.kad.buckets[0][i] # Peer(129, 0)
    /\ routes.kad.buckets[0][kBucketSize] = last.id

-----------------------------------------------------------------------------
(* Claims about routing loops (SpecMesh) *)

\* C36: whatever the NextHop tables of the routers, cyclic ones included, a
\* single-layer envelope injected with ttl t is passed to Send at most t
\* times in total by all routers together.
C36_SendsBoundedByTTL ==
    job.kind = "inject" => mesh.sends <= job.env.TTL

\* Alice's and the relay's tables point at each other; the envelope injected
\* with ttl 5 went round until the fifth Send and was then dropped
C36_Witness ==
    /\ job.kind = "inject" /\ job.env.TTL = 5
    /\ mesh.nextHop[IdA] = (job.to :> IdR)
    /\ mesh.nextHop[IdR] = (job.to :> IdA)
    /\ mesh.sends = 5
    /\ wire = <<>>
    /\ last.kind = "hop" /\ last.act = "ttl expired"


-----------------------------------------------------------------------------
(* Claims about inbound decryption (SpecInbound) *)

\* C37: when Strategy.HandleIncoming returns an error for an envelope the
\* router delivered to the socket (a wrong key, a payload too short for a
\* nonce), the socket enqueues no IncomingMessage for it.
C37_UndecryptedNotEnqueued ==
    (/\ last.kind = "arrive"
     /\ Len(last.payloads) = 1
     /\ ~SimpleHandleIncoming(stratKey, last.payloads[1]).ok)
        => Len(incoming[last.host]) = last.before


-----------------------------------------------------------------------------
(* Claims about Close racing with deliveries (SpecClose) *)

\* C38: under every interleaving of Socket.Close calls with deliveries on
\* stream goroutines, no message is sent on the closed incoming channel, the
\* channel is closed at most once, and no IncomingMessage is enqueued after a
\* Close call has returned.
C38_CloseSafe ==
    /\ last.kind # "panic"
    /\ chanCloses[BufHost] <= 1
    /\ last.kind = "enqueued" => ~last.afterClose

====
